---- MODULE Spec2Model ----
(***************************************************************************)
(* Wave scheduler (ZombieManager), agent damage (Zombie.takeDamage) and    *)
(* defender damage (Player.takeDamage) of the zombie shooter.              *)
(*                                                                         *)
(* Three specifications share the variables:                               *)
(*   Spec          the scheduler with its timers, driven by Game           *)
(*   SpecAgent     takeDamage call sequences on one agent                  *)
(*   SpecDefender  takeDamage call sequences on the defender, with a clock *)
(*   SpecScenario  the first calls on a new defender, logged                *)
(***************************************************************************)
EXTENDS Integers, Sequences, FiniteSets, TLC

VARIABLES
  \* ZombieManager
  currentWave, waveActive, zombiesRemainingInWave, zombiesSpawnedInWave,
  spawnInterval,   \* handle of the spawn cadence, 0 for null
  zombies,         \* sequence of agent records
  \* browser timers armed by ZombieManager
  intervals,       \* armed setInterval timers: records [id, wave]
  timeouts,        \* pending inter-wave setTimeout callbacks, oldest first
  \* Game
  isRunning,
  \* Player
  playerHealth, playerIsDead, lastDamageTime,
  now,             \* Date.now(), in ms
  \* what the last handler dispatched or did to timers
  emitted,
  \* SpecAgent: the agent under test and the calls made on it
  agent, damageLog,
  \* SpecDefender: the last takeDamage call on the defender, the game-over
  \* events dispatched for this defender, and (SpecScenario) the calls made
  lastCall, gameOvers, hitLog,
  \* Player.stamina and the defender's current weapon
  stamina, currentWeapon

vars == << currentWave, waveActive, zombiesRemainingInWave, zombiesSpawnedInWave,
           spawnInterval, zombies, intervals, timeouts, isRunning,
           playerHealth, playerIsDead, lastDamageTime, now, emitted,
           agent, damageLog, lastCall, gameOvers, hitLog, stamina,
           currentWeapon >>

schedulerVars == << currentWave, waveActive, zombiesRemainingInWave,
                    zombiesSpawnedInWave, spawnInterval, zombies, intervals,
                    timeouts, isRunning, emitted >>
playerVars == << playerHealth, playerIsDead, lastDamageTime, now, lastCall,
                gameOvers >>
agentVars == << agent, damageLog >>
gearVars == << stamina, currentWeapon >>

(***************************************************************************)
(* Bounds of the model.                                                    *)
(***************************************************************************)
MaxWave == 2          \* startNewWave is not explored beyond this wave number
MaxZombies == 2       \* agents held in ZombieManager.zombies at one time
MaxTimeouts == 2      \* pending inter-wave timeouts

Min(a, b) == IF a <= b THEN a ELSE b
Max(a, b) == IF a >= b THEN a ELSE b

\* An entry of `emitted`: an event dispatched on the document, or a call
\* of the timer API.
Did(what, arg) == [ev |-> what, arg |-> arg]

(***************************************************************************)
(* Zombie                                                                  *)
(***************************************************************************)
ZombieTypes == {"WALKER", "RUNNER", "TANK"}

\* Zombie.getZombieProperties: the fields the damage path reads.
GetZombieProperties(type) ==
  CASE type = "WALKER" -> [health |-> 100, damage |-> 10, scoreValue |-> 100]
    [] type = "RUNNER" -> [health |-> 70,  damage |-> 8,  scoreValue |-> 150]
    [] type = "TANK"   -> [health |-> 250, damage |-> 25, scoreValue |-> 250]

\* new Zombie(type, ...): full health, alive, model attached to the scene.
NewZombie(type) ==
  [type |-> type, health |-> GetZombieProperties(type).health,
   isDead |-> FALSE, inScene |-> TRUE]

\* Zombie.die: the dead flag and the zombie-killed event.
Die(z) ==
  [zombie |-> [z EXCEPT !.isDead = TRUE],
   events |-> << Did("zombie-killed", GetZombieProperties(z.type).scoreValue) >>]

\* Mutant of TakeDamage: no early return for a dead agent.
TakeDamageNoDeadCheck(z, amount) ==
  LET h == z.health - amount IN
  IF h <= 0
  THEN LET d == Die([z EXCEPT !.health = 0]) IN
       [zombie |-> d.zombie, killed |-> TRUE, events |-> d.events]
  ELSE [zombie |-> [z EXCEPT !.health = h], killed |-> FALSE, events |-> << >>]

\* Mutant of TakeDamage: health is not clamped at 0.
TakeDamageNoClamp(z, amount) ==
  IF z.isDead
  THEN [zombie |-> z, killed |-> FALSE, events |-> << >>]
  ELSE LET h == z.health - amount IN
       IF h <= 0
       THEN LET d == Die([z EXCEPT !.health = h]) IN
            [zombie |-> d.zombie, killed |-> TRUE, events |-> d.events]
       ELSE [zombie |-> [z EXCEPT !.health = h], killed |-> FALSE,
             events |-> << >>]

\* Zombie.takeDamage(amount): the agent afterwards, the returned flag and
\* the events dispatched.
TakeDamage(z, amount) ==
  IF z.isDead
  THEN [zombie |-> z, killed |-> FALSE, events |-> << >>]
  ELSE LET h == z.health - amount IN
       IF h <= 0
       THEN LET d == Die([z EXCEPT !.health = 0]) IN
            [zombie |-> d.zombie, killed |-> TRUE, events |-> d.events]
       ELSE [zombie |-> [z EXCEPT !.health = h], killed |-> FALSE,
             events |-> << >>]

(***************************************************************************)
(* Weapon and stamina of the defender                                      *)
(***************************************************************************)
\* The kinds Weapon.getRandomWeaponType and Game.init hand out.
WeaponTypes == {"PISTOL", "SHOTGUN", "RIFLE"}

\* Weapon.getWeaponProperties: damage (per pellet for the shotgun), range
\* in thousandths of a unit, fireRate in shots per second, magazineSize,
\* reloadTime in ms.
GetWeaponProperties(type) ==
  CASE type = "PISTOL"  -> [damage |-> 25, range |-> 30000, fireRate |-> 3,
                            magazineSize |-> 12, reloadTime |-> 1200,
                            automatic |-> FALSE]
    [] type = "SHOTGUN" -> [damage |-> 15, range |-> 15000, fireRate |-> 1,
                            magazineSize |-> 6, reloadTime |-> 2500,
                            automatic |-> FALSE]
    [] type = "RIFLE"   -> [damage |-> 30, range |-> 50000, fireRate |-> 8,
                            magazineSize |-> 30, reloadTime |-> 2000,
                            automatic |-> TRUE]

\* new Weapon(type, scene): a full magazine and three more in reserve;
\* reloads are the pending reload completions (the ammoToAdd each will add
\* and the time it is due), autoReloads the times the pending delayed
\* reload() calls are due.
NewWeapon(type) ==
  [type |-> type,
   ammoInMagazine |-> GetWeaponProperties(type).magazineSize,
   totalAmmo |-> GetWeaponProperties(type).magazineSize * 3,
   isReloading |-> FALSE, lastFireTime |-> 0,
   reloads |-> << >>, autoReloads |-> << >>]

MaxStamina == 100

(***************************************************************************)
(* Player                                                                  *)
(***************************************************************************)
PlayerMaxHealth == 100
DamageInvincibilityTime == 1000   \* ms
DamageCap == 30

\* Mutant of Invincible: the window taken in seconds against a clock in ms.
InvincibleSeconds(t, window) == t - window < DamageInvincibilityTime \div 1000

\* Player.takeDamage, "Check if player is in invincibility period": t is
\* Date.now(), window is lastDamageTime.
Invincible(t, window) == t - window < DamageInvincibilityTime

\* Mutant of CappedDamage: no cap.
UncappedDamage(amount) == amount

\* Player.takeDamage, "Cap damage to prevent instant deaths".
CappedDamage(amount) == Min(amount, DamageCap)

\* Mutant of PlayerTakeDamage: no early return for a dead defender.
PlayerTakeDamageNoDeadCheck(h, dead, window, t, amount) ==
  IF Invincible(t, window)
  THEN [health |-> h, isDead |-> dead, lastDamageTime |-> window,
        events |-> << >>]
  ELSE LET h2 == h - CappedDamage(amount) IN
       IF h2 <= 0
       THEN [health |-> 0, isDead |-> TRUE, lastDamageTime |-> t,
             events |-> << Did("game-over", 0) >>]
       ELSE [health |-> h2, isDead |-> dead, lastDamageTime |-> t,
             events |-> << >>]

\* Player.takeDamage(amount) at Date.now() = t on a defender with health h,
\* dead flag `dead` and lastDamageTime `window`; Player.die dispatches
\* game-over.
PlayerTakeDamage(h, dead, window, t, amount) ==
  IF dead
  THEN [health |-> h, isDead |-> dead, lastDamageTime |-> window,
        events |-> << >>]
  ELSE IF Invincible(t, window)
  THEN [health |-> h, isDead |-> dead, lastDamageTime |-> window,
        events |-> << >>]
  ELSE LET h2 == h - CappedDamage(amount) IN
       IF h2 <= 0
       THEN [health |-> 0, isDead |-> TRUE, lastDamageTime |-> t,
             events |-> << Did("game-over", 0) >>]
       ELSE [health |-> h2, isDead |-> FALSE, lastDamageTime |-> t,
             events |-> << >>]

(***************************************************************************)
(* ZombieManager                                                           *)
(***************************************************************************)
\* Mutant of GetWaveConfig: the spawn rate is not capped.
GetWaveConfigNoCap(waveNumber) ==
  LET tier == CASE waveNumber >= 12 -> << 3, 4, 3 >>
                [] waveNumber >= 8  -> << 4, 4, 2 >>
                [] waveNumber >= 5  -> << 6, 3, 1 >>
                [] waveNumber >= 3  -> << 8, 2, 0 >>
                [] OTHER            -> << 10, 0, 0 >>
  IN [totalZombies  |-> 5 + waveNumber * 2,
      spawnRate     |-> 10 + waveNumber * 2,
      walkerPercent |-> tier[1],
      runnerPercent |-> tier[2],
      tankPercent   |-> tier[3]]

\* ZombieManager.getWaveConfig; rates and proportions in tenths.
GetWaveConfig(waveNumber) ==
  LET tier == CASE waveNumber >= 12 -> << 3, 4, 3 >>
                [] waveNumber >= 8  -> << 4, 4, 2 >>
                [] waveNumber >= 5  -> << 6, 3, 1 >>
                [] waveNumber >= 3  -> << 8, 2, 0 >>
                [] OTHER            -> << 10, 0, 0 >>
  IN [totalZombies  |-> 5 + waveNumber * 2,
      spawnRate     |-> Min(10 + waveNumber * 2, 40),
      walkerPercent |-> tier[1],
      runnerPercent |-> tier[2],
      tankPercent   |-> tier[3]]

\* ZombieManager.spawnZombie: the kinds the roll in [0, 1) can select.
SpawnTypes(cfg) ==
  {t \in ZombieTypes :
     \/ t = "WALKER" /\ cfg.walkerPercent > 0
     \/ t = "RUNNER" /\ cfg.runnerPercent > 0
     \/ t = "TANK"   /\ cfg.walkerPercent + cfg.runnerPercent < 10}

\* setInterval returns a handle no armed timer has.
FreshId(armed) == CHOOSE i \in 1..(Cardinality(armed) + 1) :
                    \A t \in armed : t.id # i

\* clearInterval(handle)
ClearInterval(armed, handle) == {t \in armed : t.id # handle}

\* Mutant of ArmCadence: the previous cadence is left armed.
ArmCadenceNoClear(armed, handle, id, wave) ==
  armed \cup {[id |-> id, wave |-> wave]}

\* startNewWave, "Clear existing spawn interval if it exists", then
\* "Create new spawn interval": the timers left armed.
ArmCadence(armed, handle, id, wave) ==
  (IF handle # 0 THEN ClearInterval(armed, handle) ELSE armed)
    \cup {[id |-> id, wave |-> wave]}

\* ZombieManager.startNewWave, run when the scheduler holds wave number
\* `wave`, the timers `armed` and the cadence handle `handle`; `out` is what
\* the running handler has emitted before the call.
StartNewWave(wave, armed, handle, out) ==
  /\ wave < MaxWave
  /\ currentWave' = wave + 1
  /\ waveActive' = TRUE
  /\ zombiesSpawnedInWave' = 0
  /\ zombiesRemainingInWave' = GetWaveConfig(wave + 1).totalZombies
  /\ intervals' = ArmCadence(armed, handle, FreshId(armed), wave + 1)
  /\ spawnInterval' = FreshId(armed)
  /\ emitted' = out
       \o (IF handle # 0 THEN << Did("clearInterval", handle) >> ELSE << >>)
       \o << Did("setInterval", FreshId(armed)) >>

\* Mutant of MaySpawn: off by one.
MaySpawnOffByOne(spawned, total) == spawned <= total

\* The guard of the cadence callback: spawn while the wave is not fully
\* spawned.
MaySpawn(spawned, total) == spawned < total

\* The setInterval callback of startNewWave, for the armed timer t; its
\* closure holds the wave's config.
SpawnTick(t) ==
  LET cfg == GetWaveConfig(t.wave) IN
  /\ t \in intervals
  /\ IF MaySpawn(zombiesSpawnedInWave, cfg.totalZombies)
     THEN /\ Len(zombies) < MaxZombies
          /\ \E type \in SpawnTypes(cfg) :
               zombies' = Append(zombies, NewZombie(type))
          /\ zombiesSpawnedInWave' = zombiesSpawnedInWave + 1
          /\ emitted' = << Did("spawn", t.wave) >>
          /\ UNCHANGED << intervals, spawnInterval >>
     ELSE /\ intervals' = IF spawnInterval # 0
                          THEN ClearInterval(intervals, spawnInterval)
                          ELSE intervals
          /\ spawnInterval' = 0
          /\ emitted' = IF spawnInterval # 0
                        THEN << Did("clearInterval", spawnInterval) >>
                        ELSE << >>
          /\ UNCHANGED << zombies, zombiesSpawnedInWave >>
  /\ UNCHANGED << currentWave, waveActive, zombiesRemainingInWave, timeouts,
                  isRunning, playerVars, agentVars, hitLog, gearVars >>

\* Mutant of WaveTimeout: the defender's death is not consulted.
WaveTimeoutNoDeadCheck ==
  /\ timeouts # << >>
  /\ timeouts' = Tail(timeouts)
  /\ StartNewWave(currentWave, intervals, spawnInterval,
                  << Did("timeout", Head(timeouts).wave) >>)
  /\ UNCHANGED << zombies, isRunning, playerVars, agentVars, hitLog, gearVars >>

\* The setTimeout callback of waveComplete, breakTime after the wave ended.
\* Equal delays fire in the order they were armed.  The run of the callback
\* is recorded in `emitted` with the number of the wave that armed it.
WaveTimeout ==
  /\ timeouts # << >>
  /\ timeouts' = Tail(timeouts)
  /\ IF ~playerIsDead
     THEN StartNewWave(currentWave, intervals, spawnInterval,
                       << Did("timeout", Head(timeouts).wave) >>)
     ELSE /\ emitted' = << Did("timeout", Head(timeouts).wave) >>
          /\ UNCHANGED << currentWave, waveActive, zombiesRemainingInWave,
                          zombiesSpawnedInWave, spawnInterval, intervals >>
  /\ UNCHANGED << zombies, isRunning, playerVars, agentVars, hitLog, gearVars >>

\* ZombieManager.update, the loop over the agents: dead agents whose model
\* has left the scene are spliced out.
AfterRemoval(zs) == SelectSeq(zs, LAMBDA z : ~(z.isDead /\ ~z.inScene))

\* Mutant of IsWaveComplete: the spawn count is not consulted.
IsWaveCompleteNoCount(active, zs, spawned, remaining) ==
  active /\ Len(zs) = 0

\* ZombieManager.update, "Check if wave is complete".
IsWaveComplete(active, zs, spawned, remaining) ==
  active /\ Len(zs) = 0 /\ spawned >= remaining

Alive(zs) == {i \in DOMAIN zs : ~zs[i].isDead}

\* One frame of Game.animate while the game runs: ZombieManager.update.
\* The agents' movement is not part of this specification; `fatal` says
\* that an attackPlayer call of a live agent in this frame brought the
\* defender's health to 0 (Player.die, game-over, Game.gameOver).
Update(fatal) ==
  LET after == AfterRemoval(zombies)
      done  == IsWaveComplete(waveActive, after, zombiesSpawnedInWave,
                              zombiesRemainingInWave)
      death == IF fatal THEN << Did("game-over", 0) >> ELSE << >>
  IN
  /\ isRunning
  /\ fatal => (Alive(zombies) # {} /\ ~playerIsDead)
  /\ zombies' = after
  /\ IF fatal
     THEN /\ playerHealth' = 0
          /\ playerIsDead' = TRUE
          /\ lastDamageTime' = now
          /\ gameOvers' = gameOvers + 1
          /\ isRunning' = FALSE
     ELSE UNCHANGED << playerHealth, playerIsDead, lastDamageTime, gameOvers,
                       isRunning >>
  /\ IF done
     THEN \* ZombieManager.waveComplete
          /\ Len(timeouts) < MaxTimeouts
          /\ waveActive' = FALSE
          /\ intervals' = IF spawnInterval # 0
                          THEN ClearInterval(intervals, spawnInterval)
                          ELSE intervals
          /\ spawnInterval' = 0
          /\ timeouts' = Append(timeouts, [wave |-> currentWave, stale |-> FALSE])
          /\ emitted' = death \o << Did("wave-complete", currentWave) >>
     ELSE /\ emitted' = death
          /\ UNCHANGED << waveActive, intervals, spawnInterval, timeouts >>
  /\ UNCHANGED << currentWave, zombiesRemainingInWave, zombiesSpawnedInWave,
                  now, lastCall, agentVars, hitLog, gearVars >>

\* Weapon damage of the starter weapon (RIFLE).
RifleDamage == 30

\* A round of the rifle resolved on agent i: Weapon.checkZombieHits calls
\* takeDamage(damage).
Shoot(i) ==
  LET r == TakeDamage(zombies[i], RifleDamage) IN
  /\ i \in DOMAIN zombies
  /\ zombies' = [zombies EXCEPT ![i] = r.zombie]
  /\ emitted' = r.events
  /\ UNCHANGED << currentWave, waveActive, zombiesRemainingInWave,
                  zombiesSpawnedInWave, spawnInterval, intervals, timeouts,
                  isRunning, playerVars, agentVars, hitLog, gearVars >>

\* The setTimeout callback of Zombie.die: scene.remove(model).
RemoveModel(i) ==
  /\ i \in DOMAIN zombies
  /\ zombies[i].isDead /\ zombies[i].inScene
  /\ zombies' = [zombies EXCEPT ![i].inScene = FALSE]
  /\ emitted' = << >>
  /\ UNCHANGED << currentWave, waveActive, zombiesRemainingInWave,
                  zombiesSpawnedInWave, spawnInterval, intervals, timeouts,
                  isRunning, playerVars, agentVars, hitLog, gearVars >>

\* Game.start
Start ==
  /\ isRunning' = TRUE
  /\ StartNewWave(currentWave, intervals, spawnInterval, << >>)
  /\ UNCHANGED << zombies, timeouts, playerVars, agentVars, hitLog, gearVars >>

\* Mutant of ResetIntervals: the cadence is left armed.
ResetIntervalsKeepCadence(armed, handle) == armed

\* ZombieManager.reset, "Clear spawn interval": the timers left armed.
\* The inter-wave timeouts are not touched.
ResetIntervals(armed, handle) ==
  IF handle # 0 THEN ClearInterval(armed, handle) ELSE armed

\* Timeouts that were armed before a reset are marked.
MarkStale(ts) == [i \in DOMAIN ts |-> [ts[i] EXCEPT !.stale = TRUE]]

\* Game.restart: resetGame (ZombieManager.reset, a new Player), then start.
Restart ==
  /\ isRunning' = TRUE
  /\ zombies' = << >>
  /\ timeouts' = MarkStale(timeouts)
  /\ playerHealth' = PlayerMaxHealth
  /\ playerIsDead' = FALSE
  /\ lastDamageTime' = 0
  /\ gameOvers' = 0
  /\ StartNewWave(0, ResetIntervals(intervals, spawnInterval), 0,
                  (IF spawnInterval # 0
                   THEN << Did("clearInterval", spawnInterval) >> ELSE << >>)
                  \o << Did("reset", 0) >>)
  /\ UNCHANGED << now, lastCall, agentVars, hitLog, gearVars >>

StartTime == 5000     \* Date.now() when the page is loaded

NoCall == [t |-> 0, amount |-> 0, before |-> 0, after |-> 0,
           wasDead |-> FALSE, isDead |-> FALSE,
           windowBefore |-> 0, windowAfter |-> 0, events |-> << >>]

\* The state after Game.init: the constructors of ZombieManager and Player.
InitGame ==
  /\ currentWave = 0
  /\ waveActive = FALSE
  /\ zombiesRemainingInWave = 0
  /\ zombiesSpawnedInWave = 0
  /\ spawnInterval = 0
  /\ zombies = << >>
  /\ intervals = {}
  /\ timeouts = << >>
  /\ isRunning = FALSE
  /\ playerHealth = PlayerMaxHealth
  /\ playerIsDead = FALSE
  /\ lastDamageTime = 0
  /\ now = StartTime
  /\ emitted = << >>
  /\ lastCall = NoCall
  /\ gameOvers = 0
  /\ damageLog = << >>
  /\ hitLog = << >>
  /\ stamina = MaxStamina
  /\ currentWeapon = NewWeapon("RIFLE")

Init ==
  /\ InitGame
  /\ agent = NewZombie("WALKER")

Next ==
  \/ Start
  \/ Restart
  \/ \E t \in intervals : SpawnTick(t)
  \/ WaveTimeout
  \/ \E fatal \in BOOLEAN : Update(fatal)
  \/ \E i \in DOMAIN zombies : Shoot(i)
  \/ \E i \in DOMAIN zombies : RemoveModel(i)

Spec == Init /\ [][Next]_vars

(***************************************************************************)
(* Claims on the wave scheduler, checked under Spec.                       *)
(***************************************************************************)
Emitted(out, what) == \E i \in DOMAIN out : out[i].ev = what

\* C1: after reset() no timer armed before the reset acts on the scheduler:
\* a reset leaves only the new wave's cadence armed, and an inter-wave
\* timeout armed before a reset neither starts a wave nor arms a cadence
\* nor adds an agent when it fires. (The claim as stated; the code leaves
\* the timeout of waveComplete pending across reset.)
C1_NoTimerSurvivesReset ==
  [][ /\ Emitted(emitted', "reset") =>
           /\ zombies' = << >>
           /\ currentWave' = 1
           /\ \A t \in intervals' : t.id = spawnInterval' /\ t.wave = 1
      /\ (timeouts # << >> /\ Head(timeouts).stale /\ timeouts' = Tail(timeouts)) =>
           /\ currentWave' = currentWave
           /\ zombiesSpawnedInWave' = zombiesSpawnedInWave
           /\ intervals' = intervals
           /\ zombies' = zombies ]_vars

\* C2: waveActive turns false, and wave-complete is dispatched, only in a
\* frame that starts with waveActive true and ends with no agent in the list
\* while the number spawned equals the wave's total; the event carries the
\* wave number. No other step deactivates the wave (Game.restart runs
\* reset and startNewWave in one handler, so it leaves the wave active).
C2_WaveCompleteOnlyWhenSpawnedAndCleared ==
  [][ ((waveActive /\ ~waveActive') \/ Emitted(emitted', "wave-complete")) =>
        /\ waveActive /\ ~waveActive'
        /\ isRunning
        /\ zombies' = << >>
        /\ currentWave' = currentWave
        /\ zombiesSpawnedInWave' = zombiesSpawnedInWave
        /\ zombiesSpawnedInWave = GetWaveConfig(currentWave).totalZombies
        /\ \E i \in DOMAIN emitted' :
              emitted'[i] = Did("wave-complete", currentWave) ]_vars

\* C2 witness: a wave-complete was just dispatched for wave 1 after its 7
\* agents were spawned.
C2_Witness ==
  /\ Emitted(emitted, "wave-complete")
  /\ ~waveActive
  /\ currentWave = 1
  /\ zombiesSpawnedInWave = 7

\* C3: wave N has totalZombies = 5 + 2N (7 at rate 1.2/s in wave 1); the
\* spawn counter never exceeds the total; agents are added one at a time and
\* only by a cadence firing that counts them; and once the counter equals
\* the total a cadence firing adds nothing and leaves no cadence armed,
\* whatever the number of agents alive.
C3_SpawnsAtMostTotal ==
  [][ /\ GetWaveConfig(1).totalZombies = 7 /\ GetWaveConfig(1).spawnRate = 12
      /\ (waveActive' => zombiesRemainingInWave' = 5 + 2 * currentWave')
      /\ zombiesSpawnedInWave' <= 5 + 2 * currentWave'
      /\ Len(zombies') > Len(zombies) =>
           /\ Len(zombies') = Len(zombies) + 1
           /\ emitted' = << Did("spawn", currentWave) >>
           /\ zombiesSpawnedInWave' = zombiesSpawnedInWave + 1
      /\ \A t \in intervals :
           (SpawnTick(t) /\ zombiesSpawnedInWave = GetWaveConfig(t.wave).totalZombies) =>
             /\ zombies' = zombies
             /\ intervals' = {}
             /\ spawnInterval' = 0 ]_vars

\* C3 witness: wave 1 is fully spawned, the cadence has cancelled itself
\* and an agent is still alive.
C3_Witness ==
  /\ waveActive /\ currentWave = 1
  /\ zombiesSpawnedInWave = 7
  /\ intervals = {} /\ spawnInterval = 0
  /\ Alive(zombies) # {}

\* C4: at most one spawn cadence is armed, it is the one the handle names
\* and it belongs to the current wave.
C4_OneCadence ==
  /\ Cardinality(intervals) <= 1
  /\ \A t \in intervals : t.id = spawnInterval /\ t.wave = currentWave
  /\ spawnInterval # 0 => \E t \in intervals : t.id = spawnInterval

\* C4 witness: startNewWave has just cancelled a pending cadence and armed
\* a new one, with agents of the previous wave still in the list.
C4_Witness ==
  /\ emitted = << Did("clearInterval", 1), Did("setInterval", 2) >>
  /\ currentWave = 2
  /\ zombies # << >>

(***************************************************************************)
(* SpecAgent: any sequence of takeDamage calls on one new agent.           *)
(***************************************************************************)
MaxHits == 7          \* takeDamage calls on the agent

\* Amounts passed to Zombie.takeDamage: none, a melee hit or shotgun pellet
\* (15), a rifle round (30), a melee weapon (40).
DamageAmounts == {0, 15, 30, 40}

InitAgent ==
  /\ InitGame
  /\ agent \in {NewZombie(type) : type \in ZombieTypes}

\* A caller (Weapon.checkZombieHits, Game.checkMeleeCombat) calls
\* agent.takeDamage(amount).
AgentHit(amount) ==
  LET r == TakeDamage(agent, amount) IN
  /\ Len(damageLog) < MaxHits
  /\ agent' = r.zombie
  /\ damageLog' = Append(damageLog,
                         [amount |-> amount, before |-> agent,
                          after |-> r.zombie, killed |-> r.killed,
                          events |-> r.events])
  /\ emitted' = r.events
  /\ UNCHANGED << currentWave, waveActive, zombiesRemainingInWave,
                  zombiesSpawnedInWave, spawnInterval, zombies, intervals,
                  timeouts, isRunning, playerVars, hitLog, gearVars >>

NextAgent == \E amount \in DamageAmounts : AgentHit(amount)

SpecAgent == InitAgent /\ [][NextAgent]_vars

(***************************************************************************)
(* SpecDefender: takeDamage calls on the defender as the clock advances.   *)
(***************************************************************************)
MaxElapsed == 4500    \* ms of wall-clock time explored
MaxLog == 3           \* calls logged in SpecScenario

\* Amounts passed to Player.takeDamage.
HitAmounts == {10, 50}

\* Time between two events, in ms.
TimeSteps == {300, 700}

\* A caller calls player.takeDamage(amount) at the current time; `logged`
\* records the call in hitLog.
DefenderHit(amount, logged) ==
  LET r == PlayerTakeDamage(playerHealth, playerIsDead, lastDamageTime, now,
                            amount)
      call == [t |-> now, amount |-> amount,
               before |-> playerHealth, after |-> r.health,
               wasDead |-> playerIsDead, isDead |-> r.isDead,
               windowBefore |-> lastDamageTime,
               windowAfter |-> r.lastDamageTime, events |-> r.events]
  IN
  /\ logged => Len(hitLog) < MaxLog
  /\ playerHealth' = r.health
  /\ playerIsDead' = r.isDead
  /\ lastDamageTime' = r.lastDamageTime
  /\ gameOvers' = gameOvers + Len(r.events)
  /\ lastCall' = call
  /\ emitted' = r.events
  /\ hitLog' = IF logged THEN Append(hitLog, call) ELSE hitLog
  /\ UNCHANGED gearVars
  /\ UNCHANGED << currentWave, waveActive, zombiesRemainingInWave,
                  zombiesSpawnedInWave, spawnInterval, zombies, intervals,
                  timeouts, isRunning, now, agentVars >>

\* Wall-clock time passes.
Elapse(dt, horizon) ==
  /\ now + dt <= StartTime + horizon
  /\ now' = now + dt
  /\ UNCHANGED << currentWave, waveActive, zombiesRemainingInWave,
                  zombiesSpawnedInWave, spawnInterval, zombies, intervals,
                  timeouts, isRunning, playerHealth, playerIsDead,
                  lastDamageTime, lastCall, gameOvers, emitted, agentVars,
                  hitLog, gearVars >>

NextDefender ==
  \/ \E amount \in HitAmounts : DefenderHit(amount, FALSE)
  \/ \E dt \in TimeSteps : Elapse(dt, MaxElapsed)

SpecDefender == Init /\ [][NextDefender]_vars

NextScenario ==
  \/ \E amount \in HitAmounts : DefenderHit(amount, TRUE)
  \/ \E dt \in TimeSteps : Elapse(dt, DamageInvincibilityTime)

SpecScenario == Init /\ [][NextScenario]_vars

(***************************************************************************)
(* Claims on Zombie.takeDamage, checked under SpecAgent.                   *)
(***************************************************************************)
Killing(log) == {i \in DOMAIN log : log[i].killed}

\* C5: over any sequence of takeDamage calls on one agent, killed = true is
\* returned at most once, at the call that takes health from above 0 to 0,
\* and zombie-killed (with the kind's scoreValue) is dispatched at that call
\* and at no other; the agent is dead exactly when that call has happened;
\* every call on a dead agent returns false, dispatches nothing and leaves
\* the agent as it was.
C5_KilledExactlyOnce ==
  /\ Cardinality(Killing(damageLog)) <= 1
  /\ agent.isDead <=> Killing(damageLog) # {}
  /\ \A i \in DOMAIN damageLog :
       LET e == damageLog[i] IN
       /\ e.killed <=> (e.before.health > 0 /\ e.after.health = 0)
       /\ e.killed <=> (~e.before.isDead /\ e.after.isDead)
       /\ e.events = IF e.killed
                     THEN << Did("zombie-killed",
                                 GetZombieProperties(agent.type).scoreValue) >>
                     ELSE << >>
       /\ e.before.isDead => (e.after = e.before /\ ~e.killed)

\* C5 witness: the agent was killed and takeDamage was called on it again
\* with a positive amount.
C5_Witness ==
  \E i, j \in DOMAIN damageLog :
    i < j /\ damageLog[i].killed /\ damageLog[j].amount > 0

\* C6: on a live agent takeDamage(amount), amount >= 0, leaves health at
\* max(0, health - amount) and returns true exactly when that is 0; health
\* never increases and is never negative; a Walker hit three times for 40
\* goes 100, 60, 20, 0 and only the third call returns true.
C6_HealthClampedAtZero ==
  /\ agent.health >= 0
  /\ \A i \in DOMAIN damageLog :
       LET e == damageLog[i] IN
       /\ e.after.health <= e.before.health
       /\ e.after.health >= 0
       /\ ~e.before.isDead =>
            /\ e.after.health = Max(0, e.before.health - e.amount)
            /\ e.killed <=> (e.after.health = 0)
  /\ (/\ agent.type = "WALKER"
      /\ Len(damageLog) >= 3
      /\ \A i \in 1..3 : damageLog[i].amount = 40) =>
       /\ damageLog[1].before.health = 100
       /\ << damageLog[1].after.health, damageLog[2].after.health,
             damageLog[3].after.health >> = << 60, 20, 0 >>
       /\ << damageLog[1].killed, damageLog[2].killed, damageLog[3].killed >>
            = << FALSE, FALSE, TRUE >>

\* C6 witness: a Walker has taken exactly three hits of 40 and is dead.
C6_Witness ==
  /\ agent.type = "WALKER"
  /\ Len(damageLog) = 3
  /\ \A i \in 1..3 : damageLog[i].amount = 40
  /\ agent.isDead

(***************************************************************************)
(* Claims on Player.takeDamage, checked under SpecDefender (C9 under       *)
(* SpecScenario).                                                          *)
(***************************************************************************)
\* The last call was made on a live defender outside any invincibility
\* window.
LastCallApplied ==
  /\ lastCall # NoCall
  /\ ~lastCall.wasDead
  /\ lastCall.t - lastCall.windowBefore >= DamageInvincibilityTime

\* C7 as stated: a call with rawAmount > 30 on a live defender outside the
\* invincibility window lowers health by exactly 30.
C7_CapExactlyThirty ==
  (LastCallApplied /\ lastCall.amount > DamageCap) =>
    lastCall.before - lastCall.after = DamageCap

\* C7 amended: such a call lowers health by min(30, health): by exactly 30
\* when health was at least 30, to 0 otherwise, never by more than 30.
C7_CapThirtyFlooredAtZero ==
  (LastCallApplied /\ lastCall.amount > DamageCap) =>
    /\ lastCall.before - lastCall.after = Min(DamageCap, lastCall.before)
    /\ lastCall.before - lastCall.after <= DamageCap
    /\ lastCall.after >= 0

\* C7 witness: a hit of 50 applied to a defender with health 10.
C7_Witness ==
  /\ LastCallApplied
  /\ lastCall.amount = 50
  /\ lastCall.before = 10
  /\ lastCall.after = 0

\* C8: a call made less than damageInvincibilityTime after the call that
\* last applied damage (the start of the window, lastDamageTime) is
\* suppressed: health, the dead flag and lastDamageTime are unchanged and
\* nothing is dispatched; a call on a live defender outside the window is
\* applied and starts the window at its own time. So of two calls within
\* one window only the first applies.
C8_SecondHitInWindowSuppressed ==
  /\ (lastCall # NoCall
      /\ lastCall.t - lastCall.windowBefore < DamageInvincibilityTime) =>
       /\ lastCall.after = lastCall.before
       /\ lastCall.isDead = lastCall.wasDead
       /\ lastCall.windowAfter = lastCall.windowBefore
       /\ lastCall.events = << >>
  /\ LastCallApplied =>
       /\ lastCall.after < lastCall.before
       /\ lastCall.windowAfter = lastCall.t
  /\ lastCall # NoCall => lastDamageTime = lastCall.windowAfter

\* C8 witness: a call on a live defender 300 ms into a window.
C8_Witness ==
  /\ lastCall # NoCall
  /\ ~lastCall.wasDead
  /\ lastCall.amount > 0
  /\ lastCall.t - lastCall.windowBefore = 300

\* The calls of the scenario: 10 at t = 0, 50 at 0.3 s, 50 at 1.0 s, on a
\* new defender.
ScenarioCalls ==
  /\ Len(hitLog) = 3
  /\ << hitLog[1].amount, hitLog[2].amount, hitLog[3].amount >> = << 10, 50, 50 >>
  /\ hitLog[2].t = hitLog[1].t + 300
  /\ hitLog[3].t = hitLog[1].t + 1000

\* C9 as stated: the scenario leaves health at 90, 90 and then 40.
C9_ScenarioEndsAtForty ==
  ScenarioCalls =>
    /\ hitLog[1].before = 100
    /\ << hitLog[1].after, hitLog[2].after, hitLog[3].after >> = << 90, 90, 40 >>

\* C9 amended: the first hit gives 90 and starts the window, the hit of 50
\* at 0.3 s is suppressed, and the hit of 50 at 1.0 s is applied capped at
\* 30: health goes from 90 to 60.
C9_ScenarioEndsAtSixty ==
  ScenarioCalls =>
    /\ hitLog[1].before = 100
    /\ << hitLog[1].after, hitLog[2].after, hitLog[3].after >> = << 90, 90, 60 >>
    /\ hitLog[1].windowAfter = hitLog[1].t
    /\ hitLog[2].windowAfter = hitLog[1].t
    /\ hitLog[3].windowAfter = hitLog[3].t
    /\ playerHealth = 60 /\ ~playerIsDead

\* C9 witness: the three calls of the scenario have been made.
C9_Witness == ScenarioCalls /\ playerHealth = 60

\* C10: the defender's health stays within [0, maxHealth]; the defender is
\* dead exactly when health is 0; game-over has been dispatched once if the
\* defender is dead and never otherwise, and a call dispatches it exactly
\* when it takes health from above 0 to 0; a call on a dead defender changes
\* nothing and dispatches nothing.
C10_DefenderHealthAndGameOver ==
  /\ 0 <= playerHealth /\ playerHealth <= PlayerMaxHealth
  /\ playerIsDead <=> playerHealth = 0
  /\ gameOvers = IF playerIsDead THEN 1 ELSE 0
  /\ lastCall # NoCall =>
       /\ (lastCall.events = << Did("game-over", 0) >>)
            <=> (lastCall.before > 0 /\ lastCall.after = 0)
       /\ lastCall.events # << >> => ~lastCall.wasDead /\ lastCall.isDead
       /\ lastCall.wasDead =>
            /\ lastCall.after = lastCall.before
            /\ lastCall.isDead
            /\ lastCall.windowAfter = lastCall.windowBefore
            /\ lastCall.events = << >>

\* C10 witness: takeDamage called on a dead defender after the window has
\* passed.
C10_Witness ==
  /\ lastCall # NoCall
  /\ lastCall.wasDead
  /\ lastCall.amount > 0
  /\ lastCall.t - lastCall.windowBefore >= DamageInvincibilityTime

(***************************************************************************)
(* Zombie: pursuit and attack.  Distances are in thousandths of a world    *)
(* unit, measured from the defender; times in ms.                          *)
(***************************************************************************)
NearbyRadius == 5000          \* "5 units is considered nearby"
BaseDamageCap == 10           \* Math.min(this.properties.damage, 10)
MaxMultiplier == 30           \* Math.min(3.0, ...), in tenths
AttackAnimationTime == 1000   \* setTimeout(..., 1000) of attackPlayer

\* Zombie.getZombieProperties: the fields the pursuit and attack path reads.
\* attackCooldown is the number the table holds (1.5, 1.0, 2.0), in tenths;
\* moveStep is moveSpeed * 0.016.
GetAttackProperties(type) ==
  CASE type = "WALKER" ->
         [attackRange |-> 5000, attackCooldown |-> 15, moveStep |-> 32]
    [] type = "RUNNER" ->
         [attackRange |-> 4800, attackCooldown |-> 10, moveStep |-> 64]
    [] type = "TANK" ->
         [attackRange |-> 5500, attackCooldown |-> 20, moveStep |-> 24]

\* new Zombie(type, position, ...) at distance dist from the defender; id
\* names the object.
SpawnedZombie(id, type, dist) ==
  [id |-> id, type |-> type, health |-> GetZombieProperties(type).health,
   isDead |-> FALSE, inScene |-> TRUE, dist |-> dist,
   lastAttackTime |-> 0, isAttacking |-> FALSE]

\* attackPlayer, the filter over zombieManager.zombies: live agents nearer
\* than 5 units to the defender.
NearbyZombiesCount(zs) ==
  Cardinality({j \in DOMAIN zs : ~zs[j].isDead /\ zs[j].dist < NearbyRadius})

\* Mutant of AttackMultiplier: no ceiling.
AttackMultiplierNoCeiling(nearby) == 10 + nearby

\* attackPlayer: Math.min(3.0, 1 + nearbyZombiesCount * 0.1), in tenths.
AttackMultiplier(nearby) == Min(MaxMultiplier, 10 + nearby)

\* The binary64 product adjustedDamage * multiplier lies above the exact
\* product, which is an integer, in two cases: 1 + 14 * 0.1 evaluates to
\* 2.4000000000000004 and 1 + 19 * 0.1 to 2.9000000000000004, so that
\* 10 * multiplier is 24.000000000000004 and 29.000000000000004.
ProductRoundsAbove(capped, nearby) == capped = 10 /\ nearby \in {14, 19}

\* attackPlayer: Math.ceil(Math.min(damage, 10) * multiplier), the amount
\* passed to player.takeDamage.
AttackDamage(type, nearby) ==
  LET capped == Min(GetZombieProperties(type).damage, BaseDamageCap)
      tenths == capped * AttackMultiplier(nearby)
  IN (tenths + 9) \div 10
       + (IF ProductRoundsAbove(capped, nearby) THEN 1 ELSE 0)

\* Zombie.attackPlayer of the agent at index i of the list zs, at time t,
\* on the defender p.
AttackPlayer(i, zs, p, t) ==
  LET z == zs[i]
      nearby == NearbyZombiesCount(zs)
      amount == AttackDamage(z.type, nearby)
      r == PlayerTakeDamage(p.health, p.isDead, p.lastDamageTime, t, amount)
  IN
  IF z.isAttacking
  THEN [zombies |-> zs, player |-> p, events |-> << >>]
  ELSE [zombies |-> [zs EXCEPT ![i].lastAttackTime = t,
                               ![i].isAttacking = TRUE],
        player |-> [health |-> r.health, isDead |-> r.isDead,
                    lastDamageTime |-> r.lastDamageTime],
        events |-> << Did("attack",
                          [id |-> z.id, type |-> z.type, dist |-> z.dist,
                           nearby |-> nearby, amount |-> amount,
                           previous |-> z.lastAttackTime, t |-> t]) >>
                     \o r.events]

\* Mutant of NinetyPercent: the product is truncated.
NinetyPercentTruncated(gap) == (gap * 9) \div 10

\* distanceToAttackRange * 0.9.  The product of two binary64 numbers is
\* rounded to the nearest representable number; on the model's grid of
\* thousandths it is rounded to the nearest thousandth.
NinetyPercent(gap) == (gap * 9 + 5) \div 10

\* Zombie.moveTowardsPlayer for an agent with no other agent within the
\* collision distance: no move inside attackRange, else one step towards
\* the defender, or 90% of the gap when the gap is shorter than the step.
MoveTowardsPlayer(z) ==
  LET props == GetAttackProperties(z.type)
      gap == z.dist - props.attackRange
  IN IF z.dist <= props.attackRange
     THEN z
     ELSE [z EXCEPT !.dist = IF gap < props.moveStep
                              THEN z.dist - NinetyPercent(gap)
                              ELSE z.dist - props.moveStep]

\* Zombie.update, "Attack if cooldown is over": Date.now() - lastAttackTime
\* (ms) is compared with attackCooldown (the number 1.5, 1.0 or 2.0).
CooldownOver(t, z) ==
  (t - z.lastAttackTime) * 10 > GetAttackProperties(z.type).attackCooldown

\* Zombie.update of the agent at index i.
ZombieUpdate(i, zs, p, t) ==
  LET z == zs[i]
      moved == [zs EXCEPT ![i] = MoveTowardsPlayer(z)]
  IN
  IF z.isDead
  THEN [zombies |-> zs, player |-> p, events |-> << >>]
  ELSE IF z.dist <= GetAttackProperties(z.type).attackRange
          /\ CooldownOver(t, z)
       THEN AttackPlayer(i, moved, p, t)
       ELSE [zombies |-> moved, player |-> p, events |-> << >>]

\* Sequence s without its element i (Array.splice(i, 1)).
Splice(s, i) == [j \in 1..(Len(s) - 1) |-> IF j < i THEN s[j] ELSE s[j + 1]]

\* ZombieManager.update, "Update zombies and remove dead ones": the loop
\* from the end of the list, at index i.
RECURSIVE UpdateZombies(_, _, _, _, _)
UpdateZombies(i, zs, p, t, out) ==
  IF i = 0
  THEN [zombies |-> zs, player |-> p, events |-> out]
  ELSE IF zs[i].isDead /\ ~zs[i].inScene
       THEN UpdateZombies(i - 1, Splice(zs, i), p, t, out)
       ELSE LET r == ZombieUpdate(i, zs, p, t) IN
            UpdateZombies(i - 1, r.zombies, r.player, t, out \o r.events)

\* One frame of Game.animate while the game runs, with the agents' movement
\* and attacks: ZombieManager.update; a game-over event stops the game
\* (Game.gameOver).  The wave is not fully spawned in the specifications
\* that use this action, so the wave-complete check fails.
Tick ==
  LET p == [health |-> playerHealth, isDead |-> playerIsDead,
            lastDamageTime |-> lastDamageTime]
      r == UpdateZombies(Len(zombies), zombies, p, now, << >>)
  IN
  /\ isRunning
  /\ ~IsWaveComplete(waveActive, r.zombies, zombiesSpawnedInWave,
                     zombiesRemainingInWave)
  /\ zombies' = r.zombies
  /\ playerHealth' = r.player.health
  /\ playerIsDead' = r.player.isDead
  /\ lastDamageTime' = r.player.lastDamageTime
  /\ gameOvers' = gameOvers + (IF Emitted(r.events, "game-over") THEN 1 ELSE 0)
  /\ isRunning' = ~Emitted(r.events, "game-over")
  /\ emitted' = r.events
  /\ UNCHANGED << currentWave, waveActive, zombiesRemainingInWave,
                  zombiesSpawnedInWave, spawnInterval, intervals, timeouts,
                  now, lastCall, agentVars, hitLog, gearVars >>

\* The setTimeout callback of attackPlayer, 1000 ms after the attack:
\* isAttacking = false.
AttackTimer(i) ==
  /\ i \in DOMAIN zombies
  /\ zombies[i].isAttacking
  /\ now >= zombies[i].lastAttackTime + AttackAnimationTime
  /\ zombies' = [zombies EXCEPT ![i].isAttacking = FALSE]
  /\ emitted' = << >>
  /\ UNCHANGED << currentWave, waveActive, zombiesRemainingInWave,
                  zombiesSpawnedInWave, spawnInterval, intervals, timeouts,
                  isRunning, playerVars, agentVars, hitLog, gearVars >>

(***************************************************************************)
(* SpecSwarm: one frame after another with a horde around the defender.    *)
(***************************************************************************)
HordeWave == 12       \* the wave the hordes belong to
MaxNearby == 25       \* agents around the defender besides the attacker

\* The scheduler in the middle of wave HordeWave with the agents zs in its
\* list, the cadence armed and the game running.
InitHorde(zs) ==
  /\ currentWave = HordeWave
  /\ waveActive = TRUE
  /\ zombiesRemainingInWave = GetWaveConfig(HordeWave).totalZombies
  /\ zombiesSpawnedInWave = Len(zs)
  /\ spawnInterval = 1
  /\ zombies = zs
  /\ intervals = {[id |-> 1, wave |-> HordeWave]}
  /\ timeouts = << >>
  /\ isRunning = TRUE
  /\ playerHealth = PlayerMaxHealth
  /\ playerIsDead = FALSE
  /\ lastDamageTime = 0
  /\ now = StartTime
  /\ emitted = << >>
  /\ lastCall = NoCall
  /\ gameOvers = 0
  /\ agent = NewZombie("WALKER")
  /\ damageLog = << >>
  /\ hitLog = << >>
  /\ stamina = MaxStamina
  /\ currentWeapon = NewWeapon("RIFLE")

\* An attacker of the given kind at distance dist, n live Runners that
\* have walked up to their attack range (4.8 units, nearer than 5) and k
\* Runners that were killed there and await removal.
Swarm(type, dist, n, k) ==
  LET near == GetAttackProperties("RUNNER").attackRange IN
  [i \in 1..(1 + n + k) |->
     IF i = 1 THEN SpawnedZombie(1, type, dist)
     ELSE IF i <= 1 + n THEN SpawnedZombie(i, "RUNNER", near)
     ELSE [SpawnedZombie(i, "RUNNER", near) EXCEPT !.health = 0,
                                                   !.isDead = TRUE]]

\* The attacker stands at its attack range or a step outside it.
SwarmGaps == {0, 200}

InitSwarm ==
  \E type \in ZombieTypes, gap \in SwarmGaps, n \in 0..MaxNearby,
     k \in 0..1 :
    InitHorde(Swarm(type, GetAttackProperties(type).attackRange + gap, n, k))

NextSwarm == Tick

SpecSwarm == InitSwarm /\ [][NextSwarm]_vars

\* The attackPlayer calls of the last frame that reached player.takeDamage.
Attacks == {i \in DOMAIN emitted : emitted[i].ev = "attack"}

\* Zombie.getZombieProperties, damage, as the kind's base damage.
BaseDamage(type) == GetZombieProperties(type).damage

\* C11 as stated: the amount an attacking agent passes to takeDamage is its
\* kind's base damage (Walker 10, Runner 8, Tank 25) times
\* min(3.0, 1 + 0.1 * nearbyCount); both sides in tenths.
C11_DamageIsBaseTimesMultiplier ==
  \A i \in Attacks :
    LET e == emitted[i].arg IN
    e.amount * 10 = BaseDamage(e.type) * Min(30, 10 + e.nearby)

\* C11 amended: the amount is min(base damage, 10) times
\* min(3.0, 1 + 0.1 * nearbyCount), rounded up to an integer; the rounding
\* is applied to the binary64 product, which adds 1 for a capped base of 10
\* at nearbyCount 14 and 19.  The multiplier is at most 3.0 and the amount at
\* most 30 whatever nearbyCount is.
C11_DamageIsCappedBaseRoundedUp ==
  \A i \in Attacks :
    LET e == emitted[i].arg
        capped == Min(BaseDamage(e.type), 10)
        exact == capped * Min(30, 10 + e.nearby)
        above == e.amount * 10 - exact
    IN /\ IF capped = 10 /\ e.nearby \in {14, 19}
          THEN above = 10
          ELSE above \in 0..9
       /\ e.amount <= 30
       /\ e.amount <= 3 * capped

\* C11 witness: a Tank attacks with more than 20 agents near the defender
\* and passes 30.
C11_Witness ==
  \E i \in Attacks :
    /\ emitted[i].arg.type = "TANK"
    /\ emitted[i].arg.nearby > 20
    /\ emitted[i].arg.amount = 30

(***************************************************************************)
(* SpecPursuit: two agents near the defender, frames, the attack timers,   *)
(* rifle rounds and the clock.                                             *)
(***************************************************************************)
MaxPursuit == 1500    \* ms of wall-clock time explored

\* Time between two events, in ms.
PursuitSteps == {500}

\* What separates the two agents from their attack ranges at the start:
\* nothing, or a tenth of a unit.
PursuitGaps == {0, 100}

InitPursuit ==
  \E type \in ZombieTypes, d1, d2 \in PursuitGaps :
    InitHorde(<< SpawnedZombie(1, type,
                               GetAttackProperties(type).attackRange + d1),
                 SpawnedZombie(2, "WALKER",
                               GetAttackProperties("WALKER").attackRange + d2) >>)

NextPursuit ==
  \/ Tick
  \/ \E i \in DOMAIN zombies : AttackTimer(i)
  \/ \E dt \in PursuitSteps : Elapse(dt, MaxPursuit)
  \/ \E i \in DOMAIN zombies : Shoot(i)
  \/ \E i \in DOMAIN zombies : RemoveModel(i)

SpecPursuit == InitPursuit /\ [][NextPursuit]_vars

\* C12 as stated: an agent attacks only at a tick where its distance to the
\* defender is <= its attackRange and more than its attackCooldown (Walker
\* 1.5 s, Runner 1.0 s, Tank 2.0 s) has passed since its previous attack.
C12_AttacksSeparatedByCooldown ==
  \A i \in Attacks :
    LET e == emitted[i].arg
        props == GetAttackProperties(e.type)
    IN /\ e.dist <= props.attackRange
       /\ e.previous # 0 => e.t - e.previous > props.attackCooldown * 100

\* C13 as stated: once an agent is dead, no step changes its position,
\* health or attack state (lastAttackTime, isAttacking), and no step has
\* it call the defender's takeDamage.
C13_DeadAgentIsInert ==
  [][\A i \in DOMAIN zombies :
       zombies[i].isDead =>
         /\ \A j \in DOMAIN zombies' :
              zombies'[j].id = zombies[i].id =>
                /\ zombies'[j].dist = zombies[i].dist
                /\ zombies'[j].health = zombies[i].health
                /\ zombies'[j].isDead
                /\ zombies'[j].lastAttackTime = zombies[i].lastAttackTime
                /\ zombies'[j].isAttacking = zombies[i].isAttacking
         /\ \A k \in DOMAIN emitted' :
              emitted'[k].ev = "attack" => emitted'[k].arg.id # zombies[i].id
    ]_vars

(***************************************************************************)
(* Further claims on the wave scheduler, checked under Spec.               *)
(***************************************************************************)
Count(out, what) == Cardinality({i \in DOMAIN out : out[i].ev = what})

\* C14: a frame dispatches wave-complete at most once, only for a wave that
\* is active and thereby ends, with that wave's number, and arms exactly
\* one inter-wave delay; a wave that has ended can complete again only
\* after startNewWave.  When a delay elapses its callback runs once: with
\* the defender alive it calls startNewWave once (the scheduler's wave
\* number goes up by one, one cadence is armed); with the defender dead it
\* does not (wave number unchanged, no cadence armed or cleared).
C14_WaveCompleteOnceThenNextWave ==
  [][ /\ Emitted(emitted', "wave-complete") =>
           /\ waveActive /\ ~waveActive'
           /\ Count(emitted', "wave-complete") = 1
           /\ \E i \in DOMAIN emitted' :
                emitted'[i] = Did("wave-complete", currentWave)
           /\ timeouts' = Append(timeouts, [wave |-> currentWave,
                                            stale |-> FALSE])
      /\ Len(timeouts') > Len(timeouts) => Emitted(emitted', "wave-complete")
      /\ Emitted(emitted', "timeout") =>
           /\ timeouts # << >> /\ timeouts' = Tail(timeouts)
           /\ emitted'[1] = Did("timeout", Head(timeouts).wave)
           /\ IF ~playerIsDead
              THEN /\ currentWave' = currentWave + 1
                   /\ waveActive'
                   /\ zombiesSpawnedInWave' = 0
                   /\ Count(emitted', "setInterval") = 1
                   /\ \E t \in intervals' :
                        t.id = spawnInterval' /\ t.wave = currentWave'
              ELSE /\ currentWave' = currentWave
                   /\ waveActive' = waveActive
                   /\ intervals' = intervals
                   /\ spawnInterval' = spawnInterval
                   /\ emitted' = << Did("timeout", Head(timeouts).wave) >>
      /\ Len(timeouts') < Len(timeouts) => Emitted(emitted', "timeout")
    ]_vars

\* C14 witness: an inter-wave delay has just elapsed with the defender dead.
C14_Witness ==
  /\ playerIsDead
  /\ Len(emitted) = 1
  /\ emitted[1].ev = "timeout"

\* C15 as stated: every call of startNewWave (the step arms the wave's
\* cadence) dispatches wave-start with the new wave number, and no agent is
\* spawned for a wave whose wave-start has not been dispatched.
C15_WaveStartEmitted ==
  [][ /\ Emitted(emitted', "setInterval") =>
           \E i \in DOMAIN emitted' : emitted'[i] = Did("wave-start", currentWave')
      /\ Emitted(emitted', "spawn") => ~Emitted(emitted', "wave-start")
    ]_vars

(***************************************************************************)
(* SpecReset: the scheduler of Spec, with ZombieManager.reset also called  *)
(* on its own.                                                             *)
(***************************************************************************)
\* The scheduler's fields and the timers it has armed.
Manager ==
  [currentWave |-> currentWave, waveActive |-> waveActive,
   zombiesRemainingInWave |-> zombiesRemainingInWave,
   zombiesSpawnedInWave |-> zombiesSpawnedInWave,
   spawnInterval |-> spawnInterval, zombies |-> zombies,
   intervals |-> intervals, timeouts |-> timeouts]

\* ZombieManager.reset applied to the scheduler m.
ResetManager(m) ==
  [currentWave |-> 0, waveActive |-> FALSE,
   zombiesRemainingInWave |-> 0, zombiesSpawnedInWave |-> 0,
   spawnInterval |-> 0, zombies |-> << >>,
   intervals |-> ResetIntervals(m.intervals, m.spawnInterval),
   timeouts |-> MarkStale(m.timeouts)]

\* ZombieManager.reset()
Reset ==
  LET m == ResetManager(Manager) IN
  /\ currentWave' = m.currentWave
  /\ waveActive' = m.waveActive
  /\ zombiesRemainingInWave' = m.zombiesRemainingInWave
  /\ zombiesSpawnedInWave' = m.zombiesSpawnedInWave
  /\ spawnInterval' = m.spawnInterval
  /\ zombies' = m.zombies
  /\ intervals' = m.intervals
  /\ timeouts' = m.timeouts
  /\ emitted' = (IF spawnInterval # 0
                 THEN << Did("clearInterval", spawnInterval) >> ELSE << >>)
                \o << Did("reset", 0) >>
  /\ UNCHANGED << isRunning, playerVars, agentVars, hitLog, gearVars >>

NextReset == Next \/ Reset

SpecReset == Init /\ [][NextReset]_vars

\* C16: from every reachable state of the scheduler, reset() leaves
\* currentWave = 0, waveActive = false, the spawned counter and the
\* remaining target 0, an empty agent list and no spawn cadence armed, and
\* a second reset() applied to that state leaves it as it is.
C16_ResetZeroesAndIsIdempotent ==
  LET once == ResetManager(Manager)
      twice == ResetManager(once)
  IN /\ once.currentWave = 0
     /\ ~once.waveActive
     /\ once.zombiesSpawnedInWave = 0
     /\ once.zombiesRemainingInWave = 0
     /\ once.zombies = << >>
     /\ once.spawnInterval = 0
     /\ once.intervals = {}
     /\ twice = once
     /\ Emitted(emitted, "reset") /\ ~Emitted(emitted, "setInterval") =>
          Manager = ResetManager(Manager)

\* C16 witness: reset() has just run on a scheduler that had a cadence
\* armed and inter-wave delays pending.
C16_Witness ==
  /\ Emitted(emitted, "reset") /\ Emitted(emitted, "clearInterval")
  /\ ~Emitted(emitted, "setInterval")
  /\ currentWave = 0
  /\ timeouts # << >>

(***************************************************************************)
(* SpecConfig: the scheduler at the start of a wave N, and the cadence     *)
(* spawning that wave's agents by their kind roll.                         *)
(***************************************************************************)
MaxConfigWave == 16   \* wave numbers explored
MaxRolled == 2        \* agents spawned per wave in SpecConfig

\* Math.random() of spawnZombie, in tenths.
TypeRolls == 0..9

\* ZombieManager.spawnZombie, "Determine zombie type based on percentages".
SpawnZombieType(cfg, typeRoll) ==
  IF typeRoll < cfg.walkerPercent THEN "WALKER"
  ELSE IF typeRoll < cfg.walkerPercent + cfg.runnerPercent THEN "RUNNER"
  ELSE "TANK"

\* The state startNewWave leaves when it starts wave N.
InitConfig ==
  \E N \in 1..MaxConfigWave :
    /\ currentWave = N
    /\ waveActive = TRUE
    /\ zombiesRemainingInWave = GetWaveConfig(N).totalZombies
    /\ zombiesSpawnedInWave = 0
    /\ spawnInterval = 1
    /\ zombies = << >>
    /\ intervals = {[id |-> 1, wave |-> N]}
    /\ timeouts = << >>
    /\ isRunning = TRUE
    /\ playerHealth = PlayerMaxHealth
    /\ playerIsDead = FALSE
    /\ lastDamageTime = 0
    /\ now = StartTime
    /\ emitted = << Did("setInterval", 1) >>
    /\ lastCall = NoCall
    /\ gameOvers = 0
    /\ agent = NewZombie("WALKER")
    /\ damageLog = << >>
    /\ hitLog = << >>
    /\ stamina = MaxStamina
    /\ currentWeapon = NewWeapon("RIFLE")

\* The setInterval callback of startNewWave while the wave is not fully
\* spawned: spawnZombie(waveConfig) with the roll typeRoll.
SpawnRoll(t, typeRoll) ==
  LET cfg == GetWaveConfig(t.wave) IN
  /\ t \in intervals
  /\ MaySpawn(zombiesSpawnedInWave, cfg.totalZombies)
  /\ Len(zombies) < MaxRolled
  /\ zombies' = Append(zombies, NewZombie(SpawnZombieType(cfg, typeRoll)))
  /\ zombiesSpawnedInWave' = zombiesSpawnedInWave + 1
  /\ emitted' = << Did("config", cfg), Did("roll", typeRoll),
                   Did("spawn", t.wave) >>
  /\ UNCHANGED << currentWave, waveActive, zombiesRemainingInWave,
                  intervals, spawnInterval, timeouts, isRunning, playerVars,
                  agentVars, hitLog, gearVars >>

NextConfig == \E t \in intervals, typeRoll \in TypeRolls : SpawnRoll(t, typeRoll)

SpecConfig == InitConfig /\ [][NextConfig]_vars

PelletCount == 8             \* fireShotgunPellets
ModelRadius == 400           \* CylinderGeometry(0.4, ...) of the body
FallbackTolerance == 1000    \* "distance < 1.0" of the fallback

\* raycaster.far: fireBullet sets it to the range; fireShotgunPellets leaves
\* the Raycaster's default, Infinity, written << >>.
RaycasterFar(type) ==
  IF type = "SHOTGUN" THEN << >> ELSE << GetWeaponProperties(type).range >>

\* An agent of SpawnedZombie with its offset from the line of sight.
PlacedZombie(id, type, dist, side) ==
  [id |-> id, type |-> type, health |-> GetZombieProperties(type).health,
   isDead |-> FALSE, inScene |-> TRUE, dist |-> dist, side |-> side,
   lastAttackTime |-> 0, isAttacking |-> FALSE]

Abs(n) == IF n < 0 THEN -n ELSE n

\* raycaster.intersectObjects(objects, true): the agents among `objects`
\* (indices of zs) whose model the ray x meets between near = 0 and far.
IntersectObjects(x, far, zs, objects) ==
  {i \in objects : /\ Abs(x - zs[i].side) <= ModelRadius
                   /\ (far = << >> \/ zs[i].dist <= far[1])}

\* intersects[0]: the agent met first; of two at the same distance, the
\* one earlier in the list.
Closest(hits, zs) ==
  CHOOSE i \in hits :
    \A j \in hits : zs[i].dist < zs[j].dist \/ (zs[i].dist = zs[j].dist /\ i <= j)

\* What a ray did: the agent takeDamage was called on (0 for none), its
\* distance, whether it was dead at the call, the number of takeDamage
\* calls, whether the call came from the distance-based fallback, the
\* number of agents the direct test met, and the live agent the ray meets
\* first within far (0 for none).
RayRecord(weapon, x, far, zs, hit, calls, fallback, direct) ==
  LET live == IntersectObjects(x, far, zs, {i \in DOMAIN zs : ~zs[i].isDead})
  IN [weapon |-> weapon, x |-> x,
      hit |-> IF hit = 0 THEN 0 ELSE zs[hit].id,
      hitDist |-> IF hit = 0 THEN 0 ELSE zs[hit].dist,
      hitSide |-> IF hit = 0 THEN 0 ELSE zs[hit].side,
      hitWasDead |-> IF hit = 0 THEN FALSE ELSE zs[hit].isDead,
      calls |-> calls, fallback |-> fallback, direct |-> direct,
      liveTarget |-> IF live = {} THEN 0 ELSE zs[Closest(live, zs)].id,
      liveNear |-> {zs[i].dist : i \in
                      {j \in DOMAIN zs :
                         /\ ~zs[j].isDead
                         /\ Abs(x - zs[j].side) < FallbackTolerance
                         /\ zs[j].dist < GetWeaponProperties(weapon).range}}]

\* Weapon.checkZombieHits of src/weapons/Weapon.ts, the file Game imports:
\* every agent of the list is tested, the one met first takes the damage.
CheckZombieHits(weapon, x, zs) ==
  LET far == RaycasterFar(weapon)
      damage == GetWeaponProperties(weapon).damage
      intersects == IntersectObjects(x, far, zs, DOMAIN zs)
  IN IF intersects = {}
     THEN [zombies |-> zs,
           events |-> << Did("ray", RayRecord(weapon, x, far, zs, 0, 0, FALSE, 0)) >>]
     ELSE LET i == Closest(intersects, zs)
              r == TakeDamage(zs[i], damage)
          IN [zombies |-> [zs EXCEPT ![i] = r.zombie],
              events |-> << Did("ray", RayRecord(weapon, x, far, zs, i, 1, FALSE,
                                                 Cardinality(intersects))) >>
                           \o r.events]

\* Weapon.checkZombieHits of the other Weapon source (part_009): only live
\* agents are tested; when the direct test meets none, the live agent with
\* the smallest projection among those nearer than the tolerance to the ray
\* and nearer than the range takes the damage.
CheckZombieHitsWithFallback(weapon, x, zs) ==
  LET far == RaycasterFar(weapon)
      props == GetWeaponProperties(weapon)
      aliveZombies == {i \in DOMAIN zs : ~zs[i].isDead}
      intersects == IntersectObjects(x, far, zs, aliveZombies)
      near == {i \in aliveZombies :
                 /\ zs[i].dist > 0
                 /\ Abs(x - zs[i].side) < FallbackTolerance
                 /\ zs[i].dist < props.range}
  IN IF intersects # {}
     THEN LET i == Closest(intersects, zs)
              r == TakeDamage(zs[i], props.damage)
          IN [zombies |-> [zs EXCEPT ![i] = r.zombie],
              events |-> << Did("ray", RayRecord(weapon, x, far, zs, i, 1, FALSE,
                                                 Cardinality(intersects))) >>
                           \o r.events]
     ELSE IF near # {}
     THEN LET i == Closest(near, zs)
              r == TakeDamage(zs[i], props.damage)
          IN [zombies |-> [zs EXCEPT ![i] = r.zombie],
              events |-> << Did("ray", RayRecord(weapon, x, far, zs, i, 1, TRUE, 0)) >>
                           \o r.events]
     ELSE [zombies |-> zs,
           events |-> << Did("ray", RayRecord(weapon, x, far, zs, 0, 0, FALSE, 0)) >>]

\* fireBullet or fireShotgunPellets: checkZombieHits for the rays in turn;
\* withFallback selects the source of checkZombieHits.
RECURSIVE FireRays(_, _, _, _, _)
FireRays(weapon, rays, zs, withFallback, out) ==
  IF rays = << >>
  THEN [zombies |-> zs, events |-> out]
  ELSE LET r == IF withFallback
                THEN CheckZombieHitsWithFallback(weapon, Head(rays), zs)
                ELSE CheckZombieHits(weapon, Head(rays), zs)
       IN FireRays(weapon, Tail(rays), r.zombies, withFallback, out \o r.events)

\* Offsets of a ray: through the agents on the line of sight, beside them
\* within the fallback's tolerance, and wide.
RayOffsets == {0, 700, 3000}

\* How many pellets of a discharge go the first way.
PelletSplits == {0, 3}

\* The rays of one discharge: one for a bullet; for the shotgun, pellets of
\* which the first k go one way and the others another.
DischargeRays(weapon) ==
  IF weapon = "SHOTGUN"
  THEN {[i \in 1..PelletCount |-> IF i <= k THEN a ELSE b] :
          k \in PelletSplits, a \in RayOffsets, b \in RayOffsets}
  ELSE {<< a >> : a \in RayOffsets}

\* Weapon.fire from Game.startShooting with a weapon that can fire: the
\* rays of the discharge are resolved against zombieManager.zombies.
Discharge(weapon, rays, withFallback) ==
  LET r == FireRays(weapon, rays, zombies, withFallback, << >>) IN
  /\ isRunning
  /\ zombies' = r.zombies
  /\ emitted' = r.events
  /\ UNCHANGED << currentWave, waveActive, zombiesRemainingInWave,
                  zombiesSpawnedInWave, spawnInterval, intervals, timeouts,
                  isRunning, playerVars, agentVars, hitLog, gearVars >>

\* Two agents in front of the camera: the first at 8 units on the line of
\* sight, the second behind it.
InitWeapon ==
  \E type \in ZombieTypes, dist \in {12000, 20000}, side \in {0, 600} :
    InitHorde(<< PlacedZombie(1, type, 8000, 0),
                 PlacedZombie(2, "WALKER", dist, side) >>)

NextWeapon ==
  \/ \E weapon \in WeaponTypes : \E rays \in DischargeRays(weapon) :
       Discharge(weapon, rays, FALSE)
  \/ \E i \in DOMAIN zombies : RemoveModel(i)
  \/ \E fatal \in {FALSE} : Update(fatal)

SpecWeapon == InitWeapon /\ [][NextWeapon]_vars

NextFallback ==
  \/ \E weapon \in WeaponTypes : \E rays \in DischargeRays(weapon) :
       Discharge(weapon, rays, TRUE)
  \/ \E i \in DOMAIN zombies : RemoveModel(i)
  \/ \E fatal \in {FALSE} : Update(fatal)

SpecFallback == InitWeapon /\ [][NextFallback]_vars

(***************************************************************************)
(* Claims about the rays of a discharge                                    *)
(***************************************************************************)
\* The ray records of the last discharge.
Rays == {emitted[k].arg : k \in {j \in DOMAIN emitted : emitted[j].ev = "ray"}}

\* C18: within a discharge a dead agent still in the agent list is never
\* selected as the hit of a ray, and a ray that meets a live agent within
\* its reach lands on that live agent, not on a dead one in front of it.
C18_DeadAgentNeverSelected ==
  \A r \in Rays :
    /\ ~r.hitWasDead
    /\ r.liveTarget # 0 => r.hit = r.liveTarget

\* C19: every ray calls takeDamage on at most one agent, and that agent is
\* within the weapon's range along the ray; the fallback is used only when
\* the direct test met no agent, and it takes the live agent of smallest
\* projected distance among those within the perpendicular tolerance.
C19_OneAgentWithinRange ==
  \A r \in Rays :
    /\ r.calls <= 1
    /\ r.hit # 0 => r.hitDist <= GetWeaponProperties(r.weapon).range
    /\ r.fallback => /\ r.direct = 0
                     /\ r.hit # 0
                     /\ Abs(r.x - r.hitSide) < FallbackTolerance
                     /\ \A d \in r.liveNear : r.hitDist <= d

(***************************************************************************)
(* Removal of dead agents.  A Zombie is built with a basic model and a     *)
(* texture load in flight whose callback replaces the model; die() arms a  *)
(* timer that detaches whatever model the agent has when it fires.  The    *)
(* specification follows the end of one wave: all its agents have been     *)
(* spawned and those in Init are the ones still in the list.               *)
(***************************************************************************)
MaxLive == 2               \* agents still in the list
LiveWave == 1
LiveIds == 1..MaxLive

\* new Zombie(...): createZombieModel has attached the basic model and the
\* TextureLoader's callback is pending; no die() timer has fired.
LoadingZombie(id, type) ==
  [id |-> id, type |-> type, health |-> GetZombieProperties(type).health,
   isDead |-> FALSE, inScene |-> TRUE, textureLoading |-> TRUE,
   timerFired |-> FALSE]

InitLive ==
  \E n \in 1..MaxLive : \E types \in [1..n -> ZombieTypes] :
    /\ currentWave = LiveWave
    /\ waveActive = TRUE
    /\ zombiesRemainingInWave = GetWaveConfig(LiveWave).totalZombies
    /\ zombiesSpawnedInWave = GetWaveConfig(LiveWave).totalZombies
    /\ spawnInterval = 1
    /\ zombies = [i \in 1..n |-> LoadingZombie(i, types[i])]
    /\ intervals = {[id |-> 1, wave |-> LiveWave]}
    /\ timeouts = << >>
    /\ isRunning = TRUE
    /\ playerHealth = PlayerMaxHealth
    /\ playerIsDead = FALSE
    /\ lastDamageTime = 0
    /\ now = StartTime
    /\ emitted = << >>
    /\ lastCall = NoCall
    /\ gameOvers = 0
    /\ agent = NewZombie("WALKER")
    /\ damageLog = << >>
    /\ hitLog = << >>
    /\ stamina = MaxStamina
    /\ currentWeapon = NewWeapon("RIFLE")

\* The callback of textureLoader.load: createDetailedZombieModel removes
\* the model if it is attached, builds a new one and adds it to the scene.
TextureLoaded(i) ==
  /\ i \in DOMAIN zombies
  /\ zombies[i].textureLoading
  /\ zombies' = [zombies EXCEPT ![i].textureLoading = FALSE,
                                ![i].inScene = TRUE]
  /\ emitted' = << >>
  /\ UNCHANGED << currentWave, waveActive, zombiesRemainingInWave,
                  zombiesSpawnedInWave, spawnInterval, intervals, timeouts,
                  isRunning, playerVars, agentVars, hitLog, gearVars >>

\* The setTimeout callback of Zombie.die, which fires once:
\* scene.remove(this.model).
DieTimer(i) ==
  /\ i \in DOMAIN zombies
  /\ zombies[i].isDead /\ ~zombies[i].timerFired
  /\ zombies' = [zombies EXCEPT ![i].inScene = FALSE, ![i].timerFired = TRUE]
  /\ emitted' = << >>
  /\ UNCHANGED << currentWave, waveActive, zombiesRemainingInWave,
                  zombiesSpawnedInWave, spawnInterval, intervals, timeouts,
                  isRunning, playerVars, agentVars, hitLog, gearVars >>

InList(id) == \E i \in DOMAIN zombies : zombies[i].id = id
DeadInList(id) == \E i \in DOMAIN zombies : zombies[i].id = id /\ zombies[i].isDead

DieTimerOf(id) == \E i \in DOMAIN zombies : zombies[i].id = id /\ DieTimer(i)

\* A frame of the running game.
Frame == Update(FALSE)

NextLive ==
  \/ \E i \in DOMAIN zombies : Shoot(i)
  \/ \E i \in DOMAIN zombies : TextureLoaded(i)
  \/ \E id \in LiveIds : DieTimerOf(id)
  \/ Frame

\* Frames keep being drawn and armed timers fire.
SpecLive ==
  /\ InitLive
  /\ [][NextLive]_vars
  /\ WF_vars(Frame)
  /\ \A id \in LiveIds : WF_vars(DieTimerOf(id))

\* The agents of the wave are all spawned and those in the list all killed.
WaveKilled ==
  /\ waveActive
  /\ zombiesSpawnedInWave >= zombiesRemainingInWave
  /\ \A i \in DOMAIN zombies : zombies[i].isDead

\* No step takes a live agent out of the list.
LiveAgentsStay ==
  \A i \in DOMAIN zombies :
    ~zombies[i].isDead => \E j \in DOMAIN zombies' : zombies'[j].id = zombies[i].id

\* C20: every agent that dies eventually leaves the agent list, a wave
\* whose agents are all spawned and all killed eventually reaches
\* wave-complete, and no step removes an agent that is still alive.
C20_DeadRemovedWaveCompletes ==
  /\ \A id \in LiveIds : DeadInList(id) ~> ~InList(id)
  /\ WaveKilled ~> ~waveActive
  /\ [][LiveAgentsStay]_vars

\* The part of C20 that holds: only dead agents leave the list.
C20_OnlyDeadAgentsRemoved == [][LiveAgentsStay]_vars

(***************************************************************************)
(* Weapon ammunition: fire, reload and the timers they arm, addAmmo, and   *)
(* the frame of the game with the melee check.                             *)
(***************************************************************************)
AutoReloadDelay == 300      \* ms, setTimeout in Weapon.fire
StaminaRegenRate == 5       \* per second
MeleeRange == 2000          \* "distance <= 2.0"
MeleeStaminaCost == 20
MeleeDamage == 15

\* Weapon.fire, "Check if can fire": t is performance.now() in ms;
\* t - lastFireTime < 1000 / fireRate.
FireRejected(w, t) ==
  \/ w.isReloading
  \/ w.ammoInMagazine <= 0
  \/ (t - w.lastFireTime) * GetWeaponProperties(w.type).fireRate < 1000

\* Mutant of FireAmmo: the fire-rate gate is not applied.
FireAmmoNoRateGate(w, t) ==
  IF w.isReloading \/ w.ammoInMagazine <= 0
  THEN [weapon |-> w, fired |-> FALSE]
  ELSE LET left == Max(w.ammoInMagazine - 1, 0) IN
       [weapon |-> [w EXCEPT !.ammoInMagazine = left,
                             !.lastFireTime = t,
                             !.autoReloads =
                                IF left = 0 /\ w.totalAmmo > 0
                                THEN Append(@, t + AutoReloadDelay) ELSE @],
        fired |-> TRUE]

\* Weapon.fire up to the resolution of the rays: the weapon afterwards and
\* the returned flag.  An emptied magazine with ammunition in reserve arms
\* the delayed reload.
FireAmmo(w, t) ==
  IF FireRejected(w, t)
  THEN [weapon |-> w, fired |-> FALSE]
  ELSE LET left == Max(w.ammoInMagazine - 1, 0) IN
       [weapon |-> [w EXCEPT !.ammoInMagazine = left,
                             !.lastFireTime = t,
                             !.autoReloads =
                                IF left = 0 /\ w.totalAmmo > 0
                                THEN Append(@, t + AutoReloadDelay) ELSE @],
        fired |-> TRUE]

\* Weapon.addAmmo(amount).
AddAmmo(w, amount) ==
  LET total == w.totalAmmo + amount IN
  IF w.ammoInMagazine = 0 /\ total > 0
  THEN LET ammoToAdd == Min(GetWeaponProperties(w.type).magazineSize, total) IN
       [w EXCEPT !.ammoInMagazine = ammoToAdd, !.totalAmmo = total - ammoToAdd]
  ELSE [w EXCEPT !.totalAmmo = total]

\* Mutant of ReloadWeapon: a reload in progress does not reject the call.
ReloadWeaponReentrant(w, t) ==
  LET props == GetWeaponProperties(w.type) IN
  IF w.ammoInMagazine = props.magazineSize \/ w.totalAmmo <= 0
  THEN [weapon |-> w, started |-> FALSE]
  ELSE [weapon |-> [w EXCEPT !.isReloading = TRUE,
                             !.reloads =
                                Append(@, [ammoToAdd |->
                                             Min(props.magazineSize - w.ammoInMagazine,
                                                 w.totalAmmo),
                                           due |-> t + props.reloadTime])],
        started |-> TRUE]

\* Weapon.reload() at time t: the weapon afterwards and the returned flag;
\* a started reload arms the completion timer with the ammoToAdd computed
\* now.
ReloadWeapon(w, t) ==
  LET props == GetWeaponProperties(w.type) IN
  IF w.isReloading \/ w.ammoInMagazine = props.magazineSize \/ w.totalAmmo <= 0
  THEN [weapon |-> w, started |-> FALSE]
  ELSE [weapon |-> [w EXCEPT !.isReloading = TRUE,
                             !.reloads =
                                Append(@, [ammoToAdd |->
                                             Min(props.magazineSize - w.ammoInMagazine,
                                                 w.totalAmmo),
                                           due |-> t + props.reloadTime])],
        started |-> TRUE]

\* The setTimeout callback of reload().
CompleteReload(w) ==
  [w EXCEPT !.ammoInMagazine = @ + Head(w.reloads).ammoToAdd,
            !.totalAmmo = @ - Head(w.reloads).ammoToAdd,
            !.isReloading = FALSE,
            !.reloads = Tail(@)]

\* Game.handleWaveComplete, "Refill ammo for current weapon".
RefillWeapon(w) ==
  LET size == GetWeaponProperties(w.type).magazineSize
      a == AddAmmo(w, size * 2)
      ammoToAdd == Min(size - a.ammoInMagazine, a.totalAmmo)
  IN IF a.ammoInMagazine < size
     THEN [a EXCEPT !.ammoInMagazine = @ + ammoToAdd,
                    !.totalAmmo = @ - ammoToAdd]
     ELSE a

\* Player.regenerateStamina(deltaTime), deltaTime in ms.
RegenerateStamina(s, dt) ==
  IF s < MaxStamina
  THEN Min(MaxStamina, s + (StaminaRegenRate * dt) \div 1000)
  ELSE s

\* takeDamage(amount) on the agents of zs whose index is in `targets`, in
\* list order.
RECURSIVE DamageEach(_, _, _, _, _)
DamageEach(i, zs, targets, amount, out) ==
  IF i > Len(zs)
  THEN [zombies |-> zs, events |-> out]
  ELSE IF i \in targets
       THEN LET r == TakeDamage(zs[i], amount) IN
            DamageEach(i + 1, [zs EXCEPT ![i] = r.zombie], targets, amount,
                       out \o r.events)
       ELSE DamageEach(i + 1, zs, targets, amount, out)

\* Mutant of CheckMeleeCombat: the melee radius reaches the agents' attack
\* ranges.
CheckMeleeCombatWide(w, zs, s) ==
  LET nearbyZombies == {i \in DOMAIN zs : ~zs[i].isDead /\ zs[i].dist <= 6000}
  IN
  IF w.ammoInMagazine > 0 \/ w.totalAmmo > 0
  THEN [zombies |-> zs, stamina |-> s, events |-> << >>, hit |-> {}]
  ELSE IF nearbyZombies # {} /\ s >= MeleeStaminaCost
  THEN LET r == DamageEach(1, zs, nearbyZombies, MeleeDamage, << >>) IN
       [zombies |-> r.zombies, stamina |-> s - MeleeStaminaCost,
        events |-> r.events, hit |-> {zs[i].id : i \in nearbyZombies}]
  ELSE [zombies |-> zs, stamina |-> s, events |-> << >>, hit |-> {}]

\* Game.checkMeleeCombat with Player.useStamina(20): the agents and the
\* stamina afterwards, the events dispatched and the agents hit.
CheckMeleeCombat(w, zs, s) ==
  LET nearbyZombies == {i \in DOMAIN zs :
                          ~zs[i].isDead /\ zs[i].dist <= MeleeRange}
  IN
  IF w.ammoInMagazine > 0 \/ w.totalAmmo > 0
  THEN [zombies |-> zs, stamina |-> s, events |-> << >>, hit |-> {}]
  ELSE IF nearbyZombies # {} /\ s >= MeleeStaminaCost
  THEN LET r == DamageEach(1, zs, nearbyZombies, MeleeDamage, << >>) IN
       [zombies |-> r.zombies, stamina |-> s - MeleeStaminaCost,
        events |-> r.events, hit |-> {zs[i].id : i \in nearbyZombies}]
  ELSE [zombies |-> zs, stamina |-> s, events |-> << >>, hit |-> {}]

\* The zombie-killed listener of Game, "Chance to drop ammo", for each
\* zombie-killed event of `events`: drop is 0 for no drop, else the amount
\* passed to addAmmo.
RECURSIVE DropAmmo(_, _, _)
DropAmmo(w, events, drop) ==
  IF events = << >>
  THEN w
  ELSE DropAmmo(IF Head(events).ev = "zombie-killed" /\ drop > 0
                THEN AddAmmo(w, drop) ELSE w,
                Tail(events), drop)

\* Amounts of a kill drop: none or the least
\* (Math.floor(Math.random() * 10) + 5).
Drops == {0, 5}

\* takeDamage(amount) n times on the agent at index i.
RECURSIVE DamageTimes(_, _, _, _, _)
DamageTimes(n, zs, i, amount, out) ==
  IF n = 0
  THEN [zombies |-> zs, events |-> out]
  ELSE LET r == TakeDamage(zs[i], amount) IN
       DamageTimes(n - 1, [zs EXCEPT ![i] = r.zombie], i, amount,
                   out \o r.events)

\* Game.startShooting or the automatic-fire interval: currentWeapon.fire.
\* target is the agent the rays of the discharge meet, 0 for none.
Shooting(target, drop) ==
  LET f == FireAmmo(currentWeapon, now)
      props == GetWeaponProperties(currentWeapon.type)
      rays == IF currentWeapon.type = "SHOTGUN" THEN PelletCount ELSE 1
      r == IF f.fired /\ target # 0
           THEN DamageTimes(rays, zombies, target, props.damage, << >>)
           ELSE [zombies |-> zombies, events |-> << >>]
  IN
  /\ target \in {0} \cup DOMAIN zombies
  /\ zombies' = r.zombies
  /\ currentWeapon' = DropAmmo(f.weapon, r.events, drop)
  /\ emitted' = << Did("fire", [fired |-> f.fired,
                                drop |-> IF Emitted(r.events, "zombie-killed")
                                         THEN drop ELSE 0]) >>
                 \o r.events
  /\ UNCHANGED << currentWave, waveActive, zombiesRemainingInWave,
                  zombiesSpawnedInWave, spawnInterval, intervals, timeouts,
                  isRunning, playerVars, agentVars, hitLog, stamina >>

\* Game.reload: currentWeapon.reload().
Reloading ==
  LET r == ReloadWeapon(currentWeapon, now) IN
  /\ currentWeapon' = r.weapon
  /\ emitted' = << Did("reload", [started |-> r.started, timer |-> FALSE]) >>
  /\ UNCHANGED << currentWave, waveActive, zombiesRemainingInWave,
                  zombiesSpawnedInWave, spawnInterval, zombies, intervals,
                  timeouts, isRunning, playerVars, agentVars, hitLog, stamina >>

\* The setTimeout callback armed by fire() when the magazine empties:
\* this.reload().
AutoReloadTimer ==
  LET due == Head(currentWeapon.autoReloads)
      w == [currentWeapon EXCEPT !.autoReloads = Tail(@)]
      r == ReloadWeapon(w, now)
  IN
  /\ currentWeapon.autoReloads # << >>
  /\ now >= due
  /\ currentWeapon' = r.weapon
  /\ emitted' = << Did("reload", [started |-> r.started, timer |-> TRUE]) >>
  /\ UNCHANGED << currentWave, waveActive, zombiesRemainingInWave,
                  zombiesSpawnedInWave, spawnInterval, zombies, intervals,
                  timeouts, isRunning, playerVars, agentVars, hitLog, stamina >>

\* The setTimeout callback of reload(): the reload completes.
ReloadTimer ==
  /\ currentWeapon.reloads # << >>
  /\ now >= Head(currentWeapon.reloads).due
  /\ currentWeapon' = CompleteReload(currentWeapon)
  /\ emitted' = << Did("reloaded", Head(currentWeapon.reloads).ammoToAdd) >>
  /\ UNCHANGED << currentWave, waveActive, zombiesRemainingInWave,
                  zombiesSpawnedInWave, spawnInterval, zombies, intervals,
                  timeouts, isRunning, playerVars, agentVars, hitLog, stamina >>

FrameTimes == {200}         \* clock.getDelta() of a frame, in ms

\* One frame of Game.animate while the game runs: Player.update (stamina),
\* ZombieManager.update with waveComplete and Game.handleWaveComplete, and
\* Game.checkMeleeCombat.  dt is the frame's deltaTime, drop the amount of
\* the ammunition drop of a kill made in this frame.
GameFrame(dt, drop) ==
  LET p == [health |-> playerHealth, isDead |-> playerIsDead,
            lastDamageTime |-> lastDamageTime]
      regenerated == IF playerIsDead THEN stamina
                     ELSE RegenerateStamina(stamina, dt)
      r == UpdateZombies(Len(zombies), zombies, p, now, << >>)
      done == IsWaveComplete(waveActive, r.zombies, zombiesSpawnedInWave,
                             zombiesRemainingInWave)
      w == IF done THEN RefillWeapon(currentWeapon) ELSE currentWeapon
      m == CheckMeleeCombat(w, r.zombies, regenerated)
      melee == [ammoInMagazine |-> w.ammoInMagazine, totalAmmo |-> w.totalAmmo,
                staminaBefore |-> regenerated, staminaAfter |-> m.stamina,
                agentsBefore |-> r.zombies, agentsAfter |-> m.zombies]
  IN
  /\ isRunning
  /\ zombies' = m.zombies
  /\ stamina' = m.stamina
  /\ currentWeapon' = DropAmmo(w, m.events, drop)
  /\ playerHealth' = r.player.health
  /\ playerIsDead' = r.player.isDead
  /\ lastDamageTime' = r.player.lastDamageTime
  /\ gameOvers' = gameOvers + (IF Emitted(r.events, "game-over") THEN 1 ELSE 0)
  /\ isRunning' = ~Emitted(r.events, "game-over")
  /\ IF done
     THEN \* ZombieManager.waveComplete
          /\ Len(timeouts) < MaxTimeouts
          /\ waveActive' = FALSE
          /\ intervals' = IF spawnInterval # 0
                          THEN ClearInterval(intervals, spawnInterval)
                          ELSE intervals
          /\ spawnInterval' = 0
          /\ timeouts' = Append(timeouts, [wave |-> currentWave, stale |-> FALSE])
          /\ emitted' = r.events
                          \o << Did("wave-complete", currentWave),
                                Did("melee", melee) >>
                          \o m.events
     ELSE /\ emitted' = r.events \o << Did("melee", melee) >> \o m.events
          /\ UNCHANGED << waveActive, intervals, spawnInterval, timeouts >>
  /\ UNCHANGED << currentWave, zombiesRemainingInWave, zombiesSpawnedInWave,
                  now, lastCall, agentVars, hitLog >>

MaxArsenal == 2500          \* ms of wall-clock time explored
ArsenalSteps == {500}
ArsenalWave == 1

\* The end of a wave: every agent of the wave has been spawned, one Runner
\* is left and stands at its attack range; the defender holds a weapon with
\* some of its ammunition spent.
InitArsenal ==
  \E type \in {"PISTOL", "SHOTGUN"}, left \in {1, 2}, reserve \in {0, 1} :
    /\ currentWave = ArsenalWave
    /\ waveActive = TRUE
    /\ zombiesRemainingInWave = GetWaveConfig(ArsenalWave).totalZombies
    /\ zombiesSpawnedInWave = GetWaveConfig(ArsenalWave).totalZombies
    /\ spawnInterval = 1
    /\ zombies = << SpawnedZombie(1, "RUNNER",
                                  GetAttackProperties("RUNNER").attackRange) >>
    /\ intervals = {[id |-> 1, wave |-> ArsenalWave]}
    /\ timeouts = << >>
    /\ isRunning = TRUE
    /\ playerHealth = PlayerMaxHealth
    /\ playerIsDead = FALSE
    /\ lastDamageTime = 0
    /\ now = StartTime
    /\ emitted = << >>
    /\ lastCall = NoCall
    /\ gameOvers = 0
    /\ agent = NewZombie("WALKER")
    /\ damageLog = << >>
    /\ hitLog = << >>
    /\ stamina = MaxStamina
    /\ currentWeapon =
         [NewWeapon(type) EXCEPT
            !.ammoInMagazine = left,
            !.totalAmmo = reserve * GetWeaponProperties(type).magazineSize]

NextArsenal ==
  \/ \E target \in 0..1, drop \in Drops : Shooting(target, drop)
  \/ Reloading
  \/ AutoReloadTimer
  \/ ReloadTimer
  \/ \E dt \in FrameTimes, drop \in Drops : GameFrame(dt, drop)
  \/ \E i \in DOMAIN zombies : RemoveModel(i)
  \/ \E dt \in ArsenalSteps : Elapse(dt, MaxArsenal)

SpecArsenal == InitArsenal /\ [][NextArsenal]_vars

(***************************************************************************)
(* Claims about the melee check, the ammunition and the weapon's actions   *)
(***************************************************************************)
\* The melee checks of the last frame.
MeleeChecks ==
  {emitted[k].arg : k \in {j \in DOMAIN emitted : emitted[j].ev = "melee"}}

Frames == \E dt \in FrameTimes, drop \in Drops : GameFrame(dt, drop)

NextVitality ==
  \/ Frames
  \/ \E target \in 0..1 : Shooting(target, 0)
  \/ \E i \in DOMAIN zombies : AttackTimer(i)
  \/ \E i \in DOMAIN zombies : RemoveModel(i)
  \/ \E dt \in ArsenalSteps : Elapse(dt, MaxArsenal)

\* The defender under attack, with frames that keep being drawn.
SpecVitality == InitArsenal /\ [][NextVitality]_vars /\ WF_vars(Frames)

\* C22: the health of a living defender below its maximum does not stay
\* where it is for ever: unless the defender is damaged again or dies, the
\* update ticks eventually raise it; and it never exceeds the maximum.
C22_HealthRegenerates ==
  /\ [](playerHealth <= 100)
  /\ \/ []<>(playerIsDead \/ playerHealth = 100)
     \/ []<><<playerHealth' # playerHealth>>_playerHealth

\* What the code does: no step raises the defender's health.
C22_HealthNeverIncreases == [][playerHealth' <= playerHealth]_vars

(***************************************************************************)
(* Steering among other agents.  The agents stand on one ray from the      *)
(* defender and the defender's height above the ground is neglected, so    *)
(* `dist` is an agent's position on the ray and the distance between two   *)
(* agents is the difference of their positions.  The agents are Walkers    *)
(* at full health or dead, for which the formation's angle offset          *)
(* (health % 100) is 0 and the formation point lies on the ray.            *)
(***************************************************************************)
MinZombieDistance == 1500     \* minZombieDistance
FormationRadius == 10000      \* "distanceToPlayer < 10"
CongestionCount == 2          \* "nearbyZombies > 2"

FrameTime == 16               \* ms, the frame the moveStep values are for
MinMoveDistance == 10         \* "Math.max(moveDistance, 0.01)"

\* moveTowardsPlayer, effectiveMoveDistance for a frame of dt ms:
\* max(moveSpeed * deltaTime, 0.01).
EffectiveMoveDistance(type, dt) ==
  Max((GetAttackProperties(type).moveStep * dt) \div FrameTime, MinMoveDistance)

\* Mutant of AdjustedMoveDistance: the full step is taken near the range.
AdjustedMoveDistanceFullStep(z, dt) == EffectiveMoveDistance(z.type, dt)

\* moveTowardsPlayer, adjustedMoveDistance: one step, or 90% of the gap to
\* the attack range when the gap is shorter than the step.
AdjustedMoveDistance(z, dt) ==
  LET gap == z.dist - GetAttackProperties(z.type).attackRange
      effective == EffectiveMoveDistance(z.type, dt)
  IN IF gap < effective THEN NinetyPercent(gap) ELSE effective

\* adjustedMinDistance = minZombieDistance * (0.8 + min(distance / 30, 1.5)).
AdjustedMinDistance(dist) ==
  (MinZombieDistance * 8) \div 10
    + Min((MinZombieDistance * dist) \div 30000, (MinZombieDistance * 15) \div 10)

Sign(n) == IF n > 0 THEN 1 ELSE IF n < 0 THEN -1 ELSE 0

\* The other agents a move decision of agent i looks at: every entry of
\* the list but the agent itself.
OtherZombies(i, zs) == DOMAIN zs \ {i}

\* The other agents of `others` nearest to position pos (the first of the
\* list wins a tie), 0 when there is none.
ClosestZombie(pos, zs, others) ==
  IF others = {} THEN 0
  ELSE CHOOSE j \in others :
         \A k \in others :
           \/ Abs(pos - zs[j].dist) < Abs(pos - zs[k].dist)
           \/ (Abs(pos - zs[j].dist) = Abs(pos - zs[k].dist) /\ j <= k)

\* Zombie.moveTowardsPlayer of agent i among the agents `others` of the
\* list zs in a frame of dt ms; rnd is (Math.random() - 0.5) * 0.3 in
\* thousandths.  Gives the new position and what the decision looked at.
SteerAmong(i, zs, others, rnd, dt) ==
  LET z == zs[i]
      adjusted == AdjustedMoveDistance(z, dt)
      newPosition == z.dist - adjusted
      adjustedMin == AdjustedMinDistance(z.dist)
      counted == {j \in others :
                    Abs(newPosition - zs[j].dist) < (adjustedMin * 15) \div 10}
      closest == ClosestZombie(newPosition, zs, others)
      closestDistance == IF closest = 0 THEN 0
                         ELSE Abs(newPosition - zs[closest].dist)
      strength == Max(500, 1200 - (closestDistance * 1000) \div adjustedMin)
      direction == -1000 + Sign(z.dist - zs[closest].dist) * strength + rnd
      mode == IF z.dist <= GetAttackProperties(z.type).attackRange THEN "halt"
              ELSE IF Cardinality(counted) > CongestionCount
                      /\ z.dist < FormationRadius THEN "formation"
              ELSE IF closest # 0 /\ closestDistance < adjustedMin
                   THEN "repulsion"
              ELSE "direct"
      dist == CASE mode = "halt" -> z.dist
                [] mode = "formation" -> z.dist - (adjusted * 6) \div 10
                [] mode = "repulsion" ->
                     z.dist + Sign(direction) * ((adjusted * 7) \div 10)
                [] mode = "direct" -> newPosition
  IN [dist |-> dist,
      move |-> [id |-> z.id, from |-> z.dist, to |-> dist, mode |-> mode,
                range |-> GetAttackProperties(z.type).attackRange,
                counted |-> IF mode = "halt" THEN {}
                            ELSE {zs[j].id : j \in counted},
                closest |-> IF mode = "halt" \/ closest = 0 THEN 0
                            ELSE zs[closest].id,
                dead |-> {zs[j].id : j \in {k \in DOMAIN zs : zs[k].isDead}}]]

\* Zombie.update of the agent at index i among the other agents.
SteerUpdate(i, zs, p, t, rnd, dt) ==
  LET z == zs[i]
      s == SteerAmong(i, zs, OtherZombies(i, zs), rnd, dt)
      moved == [zs EXCEPT ![i].dist = s.dist]
      a == IF z.dist <= GetAttackProperties(z.type).attackRange
              /\ CooldownOver(t, z)
           THEN AttackPlayer(i, moved, p, t)
           ELSE [zombies |-> moved, player |-> p, events |-> << >>]
  IN
  IF z.isDead
  THEN [zombies |-> zs, player |-> p, events |-> << >>]
  ELSE [zombies |-> a.zombies, player |-> a.player,
        events |-> << Did("move", s.move) >> \o a.events]

\* ZombieManager.update, the loop from the end of the list, at index i.
RECURSIVE UpdateCrowd(_, _, _, _, _, _, _)
UpdateCrowd(i, zs, p, t, rnd, dt, out) ==
  IF i = 0
  THEN [zombies |-> zs, player |-> p, events |-> out]
  ELSE IF zs[i].isDead /\ ~zs[i].inScene
       THEN UpdateCrowd(i - 1, Splice(zs, i), p, t, rnd, dt, out)
       ELSE \* r is bound to the value of the update, computed once
            CHOOSE done \in
              {UpdateCrowd(i - 1, r.zombies, r.player, t, rnd, dt,
                           out \o r.events) :
                 r \in {SteerUpdate(i, zs, p, t, rnd, dt)}} : TRUE

\* Values of (Math.random() - 0.5) * 0.3, in thousandths.
Nudges == {-150, 0, 149}

\* One frame of Game.animate while the game runs, dt ms after the previous
\* one, for agents on one ray.
CrowdTick(rnd, dt) ==
  LET p == [health |-> playerHealth, isDead |-> playerIsDead,
            lastDamageTime |-> lastDamageTime]
  IN
  \E r \in {UpdateCrowd(Len(zombies), zombies, p, now, rnd, dt, << >>)} :
  /\ isRunning
  /\ ~IsWaveComplete(waveActive, r.zombies, zombiesSpawnedInWave,
                     zombiesRemainingInWave)
  /\ zombies' = r.zombies
  /\ playerHealth' = r.player.health
  /\ playerIsDead' = r.player.isDead
  /\ lastDamageTime' = r.player.lastDamageTime
  /\ gameOvers' = gameOvers + (IF Emitted(r.events, "game-over") THEN 1 ELSE 0)
  /\ isRunning' = ~Emitted(r.events, "game-over")
  /\ emitted' = << Did("tick", [before |-> zombies, rnd |-> rnd,
                                dt |-> dt]) >> \o r.events
  /\ UNCHANGED << currentWave, waveActive, zombiesRemainingInWave,
                  zombiesSpawnedInWave, spawnInterval, intervals, timeouts,
                  lastCall, agentVars, hitLog, gearVars >>

MaxCrowd == 4               \* live agents on the ray
CrowdSpawn == 15000         \* the nearest spawn distance (minDistance)
CrowdGaps == {400, 1000, 2060, 2600}   \* spacing of the agents on the ray
MaxAdvance == 100           \* distance the first agent is followed for

\* A Walker killed where it stands, awaiting the removal of its model.
KilledZombie(id, dist) ==
  [SpawnedZombie(id, "WALKER", dist) EXCEPT !.health = 0, !.isDead = TRUE]

\* The spawn orders of the agents on the ray: the list holds the agents in
\* the order of their spawning, which is independent of their distances.
SpawnOrders == {"near first", "far first"}

\* MaxCrowd Walkers spawned on one ray, gap apart, and k killed Walkers
\* between the nearest two.
InitCrowd ==
  \E gap \in CrowdGaps, k \in 0..1, order \in SpawnOrders :
    InitHorde([i \in 1..(MaxCrowd + k) |->
                 IF i <= MaxCrowd
                 THEN SpawnedZombie(i, "WALKER",
                        CrowdSpawn + gap * (IF order = "near first"
                                            THEN i - 1 ELSE MaxCrowd - i))
                 ELSE KilledZombie(i, CrowdSpawn + gap \div 2)])

\* The ticks are followed while every agent is within MaxAdvance of the
\* nearest spawn position.
NextCrowd ==
  \/ \E rnd \in Nudges :
       /\ \A i \in DOMAIN zombies : zombies[i].dist > CrowdSpawn - MaxAdvance
       /\ CrowdTick(rnd, FrameTime)
       /\ UNCHANGED now
  \/ \E i \in DOMAIN zombies : RemoveModel(i)

SpecCrowd == InitCrowd /\ [][NextCrowd]_vars

\* The move decisions of the last tick and the list at its start.
Moves == {emitted[k].arg : k \in {j \in DOMAIN emitted : emitted[j].ev = "move"}}
TickStart == {emitted[k].arg : k \in {j \in DOMAIN emitted : emitted[j].ev = "tick"}}

\* C23: the positions after a tick do not depend on the order in which the
\* agents were updated: in a tick that starts with live agents only, every
\* agent's move is the one decided from the positions its siblings had at
\* the start of the tick.
C23_MovesDecidedFromTickStart ==
  \A start \in TickStart : \A m \in Moves :
    \A i \in DOMAIN start.before :
      /\ \A j \in DOMAIN start.before : ~start.before[j].isDead
      /\ start.before[i].id = m.id
      => m.to = SteerAmong(i, start.before, OtherZombies(i, start.before),
                           start.rnd, start.dt).dist

\* C24: a dead agent still in the list is never counted in an agent's
\* congestion count and is never its nearest neighbour.
C24_OnlyLiveAgentsSteer ==
  \A m \in Moves : m.counted \cap m.dead = {} /\ m.closest \notin m.dead

(***************************************************************************)
(* Claim on where agents are spawned, checked under Spec.                  *)
(***************************************************************************)

\* C25: agents are added to the live set only as part of an update tick of
\* the running game: while the game loop is stopped (no tick is executed)
\* no step adds an agent to the list or raises the spawned count.
C25_SpawnOnlyWhileRunning ==
  [][(Len(zombies') > Len(zombies)
        \/ zombiesSpawnedInWave' > zombiesSpawnedInWave) => isRunning]_vars

(***************************************************************************)
(* SpecApproach: the agents of SpecCrowd walk from their spawn positions   *)
(* up to the defender, one stalled frame (a second long) after another,    *)
(* and attack.  On the ray an agent's whole step shortens its distance to  *)
(* the defender; off the ray, and with the defender's height, a step of    *)
(* the same length shortens the distance by less.                          *)
(***************************************************************************)
MaxApproach == 9000          \* ms of wall-clock time explored
StalledFrame == 1000         \* ms between two frames
ApproachGaps == {400, 1000}  \* spacing of the agents on the ray
SpawnMinDistance == 15000    \* getSpawnPosition, minDistance

InitApproach ==
  \E gap \in ApproachGaps, order \in SpawnOrders, type \in ZombieTypes :
    InitHorde([i \in 1..MaxCrowd |->
                 SpawnedZombie(i, IF i = 1 THEN type ELSE "WALKER",
                   SpawnMinDistance + gap * (IF order = "near first"
                                             THEN i - 1 ELSE MaxCrowd - i))])

NextApproach ==
  \/ \E rnd \in Nudges :
       /\ now + StalledFrame <= StartTime + MaxApproach
       /\ now' = now + StalledFrame
       /\ CrowdTick(rnd, StalledFrame)
  \/ \E i \in DOMAIN zombies : AttackTimer(i)

SpecApproach == InitApproach /\ [][NextApproach]_vars

\* C26: with a stationary defender no movement step carries an agent
\* inside its attack range: agents start 15 to 30 units away, a step is
\* made only from a distance greater than attackRange, after a step in any
\* of the three modes the distance is still >= attackRange, and no live
\* agent is ever within the 2.0 units of the melee radius.
C26_NeverInsideAttackRange ==
  /\ \A i \in DOMAIN zombies :
       /\ zombies[i].dist >= GetAttackProperties(zombies[i].type).attackRange
       /\ zombies[i].dist > 2000
  /\ now = StartTime =>
       \A i \in DOMAIN zombies : zombies[i].dist \in 15000..30000
  /\ \A m \in Moves :
       /\ m.mode \in {"formation", "repulsion", "direct"} =>
            m.from > m.range /\ m.to >= m.range
       /\ m.mode = "halt" => m.to = m.from /\ m.from = m.range

\* In one frame an agent steps in formation mode, another in repulsion
\* mode, and a step from outside the attack range ends within 0.1 units of
\* it.
C26_Witness ==
  /\ \E m \in Moves : m.mode = "formation" /\ m.to < m.from
  /\ \E m \in Moves : m.mode = "repulsion" /\ m.to # m.from
  /\ \E m \in Moves : m.from > m.range /\ m.to < m.range + 100

(***************************************************************************)
(* SpecChase: one agent alone walks from where it was spawned up to the    *)
(* defender, frame after frame, and is shot at.  The frames are followed   *)
(* until the agent has attacked.                                           *)
(***************************************************************************)
ChaseTimes == {200, StalledFrame}   \* ms between two frames
ChaseStarts == {15000, 15007}             \* spawn distances
MaxChase == 30000                         \* ms of wall-clock time explored

InitChase ==
  \E type \in ZombieTypes, d \in ChaseStarts :
    InitHorde(<< SpawnedZombie(1, type, d) >>)

\* A frame of the running game while the agent is alive and has not
\* attacked yet.
ChaseFrame ==
  \E dt \in ChaseTimes :
    /\ \E i \in DOMAIN zombies :
         ~zombies[i].isDead /\ zombies[i].lastAttackTime = 0
    /\ now + dt <= StartTime + MaxChase
    /\ now' = now + dt
    /\ CrowdTick(0, dt)

NextChase ==
  \/ ChaseFrame
  \/ \E i \in DOMAIN zombies : Shoot(i)

\* requestAnimationFrame: frames keep being drawn.
SpecChase == InitChase /\ [][NextChase]_vars /\ WF_vars(ChaseFrame)

C28_WavesNeverOverlap ==
  [][Emitted(emitted', "setInterval") =>
       IF Emitted(emitted', "reset")
       THEN currentWave' = 1
       ELSE ~waveActive /\ currentWave' = currentWave + 1]_vars

\* What the code keeps: startNewWave always advances the wave number by
\* one, from the number it finds.
C28_WaveNumberAdvancesByOne ==
  [][Emitted(emitted', "setInterval") =>
       IF Emitted(emitted', "reset")
       THEN currentWave' = 1
       ELSE currentWave' = currentWave + 1]_vars

(***************************************************************************)
(* Claims on the weapon's ammunition, checked under SpecArsenal.           *)
(***************************************************************************)

\* C29: in every reachable state of the weapon the magazine holds between
\* 0 and magazineSize rounds and the reserve is not negative.
C29_AmmoWithinBounds ==
  /\ currentWeapon.ammoInMagazine >= 0
  /\ currentWeapon.ammoInMagazine
       <= GetWeaponProperties(currentWeapon.type).magazineSize
  /\ currentWeapon.totalAmmo >= 0

\* What the code keeps: neither count is ever negative.
C29_AmmoNeverNegative ==
  currentWeapon.ammoInMagazine >= 0 /\ currentWeapon.totalAmmo >= 0

\* The fire() and reload() calls of the last step, as recorded by it.
FireCalls == {k \in DOMAIN emitted : emitted[k].ev = "fire"}
ReloadCalls == {k \in DOMAIN emitted : emitted[k].ev = "reload"}

\* C30: rejected weapon actions are no-ops.  fire() returns false and
\* changes neither the ammunition nor lastFireTime nor any agent when the
\* weapon is reloading, the magazine is empty, or less than 1000/fireRate
\* ms have passed since the last successful shot, and it succeeds
\* otherwise, consuming exactly one round (a kill's ammunition drop is
\* added on top).  reload() returns false and arms no timer when a reload
\* is in progress, the magazine is full or the reserve is empty, and
\* succeeds otherwise, arming one timer.  (A step of the clock runs no
\* handler and leaves the record of the last one in place.)
C30_RejectedActionsAreNoOps ==
  [][LET w == currentWeapon
         props == GetWeaponProperties(w.type)
         fire == {emitted'[k].arg :
                    k \in {j \in DOMAIN emitted' : emitted'[j].ev = "fire"}}
         reload == {emitted'[k].arg :
                      k \in {j \in DOMAIN emitted' : emitted'[j].ev = "reload"}}
     IN
     now' = now =>
     /\ \A f \in fire :
          IF \/ w.isReloading
             \/ w.ammoInMagazine = 0
             \/ (now - w.lastFireTime) * props.fireRate < 1000
          THEN ~f.fired /\ currentWeapon' = w /\ zombies' = zombies
          ELSE /\ f.fired
               /\ currentWeapon'.lastFireTime = now
               /\ currentWeapon'.ammoInMagazine + currentWeapon'.totalAmmo
                    = w.ammoInMagazine + w.totalAmmo - 1 + f.drop
               /\ f.drop = 0 =>
                    /\ currentWeapon'.ammoInMagazine = w.ammoInMagazine - 1
                    /\ currentWeapon'.totalAmmo = w.totalAmmo
     /\ \A r \in reload :
          IF \/ w.isReloading
             \/ w.ammoInMagazine = props.magazineSize
             \/ w.totalAmmo = 0
          THEN /\ ~r.started
               /\ currentWeapon'.reloads = w.reloads
               /\ currentWeapon'.isReloading = w.isReloading
               /\ currentWeapon'.ammoInMagazine = w.ammoInMagazine
               /\ currentWeapon'.totalAmmo = w.totalAmmo
          ELSE /\ r.started
               /\ currentWeapon'.isReloading
               /\ Len(currentWeapon'.reloads) = Len(w.reloads) + 1]_vars

\* A fire() call has just been rejected within the fire-rate interval of a
\* successful shot, with rounds in the magazine and no reload in progress.
C30_Witness ==
  /\ \E k \in FireCalls : ~emitted[k].arg.fired
  /\ ~currentWeapon.isReloading
  /\ currentWeapon.ammoInMagazine > 0
  /\ currentWeapon.lastFireTime = now

\* A reload() call has just been rejected while a reload is in progress.
C30_ReloadRejected ==
  /\ \E k \in ReloadCalls : ~emitted[k].arg.started
  /\ currentWeapon.isReloading

====
